---- MODULE Spec2Model ----
(***************************************************************************)
(* State-machine model of the Tabular ML plugin of ml_server_all_in_one.   *)
(*                                                                         *)
(* Two stores are modelled, each with the operations built on it:          *)
(*   - backend/utils.py   SessionStore (TTL purging) and the run index,    *)
(*     with the service handlers of backend/services.py;                   *)
(*   - core/__init__.py   DatasetStore (capacity, least-recently-used      *)
(*     eviction) with register/drop/filter/outlier operations.             *)
(*                                                                         *)
(* Spec      is the backend session store: load, get, clear, expiry.       *)
(* RunSpec   is the backend session store with preprocessing, training     *)
(*           and evaluation of runs.                                       *)
(* CoreSpec  is the core dataset store with its operations.                *)
(*                                                                         *)
(* Time is counted in minutes.  A dataframe is a record                    *)
(* [columns, rows]: the column names and the rows, each row a sequence of  *)
(* integer cells.  Identifiers produced by uuid4 are modelled as fresh     *)
(* naturals.  Python object identity of dataframes matters for the backend *)
(* store (create copies its argument), so the backend keeps a heap of      *)
(* dataframe objects and sessions hold object ids.                         *)
(***************************************************************************)
EXTENDS Integers, Sequences, FiniteSets, TLC

(***************************************************************************)
(* Bounds of the model.                                                    *)
(***************************************************************************)
\* the clock stops here
MaxTime == 31
\* session ids ever issued by SessionStore.create
MaxSessionIds == 2
\* run ids ever issued by run_train
MaxRunIds == 2

(***************************************************************************)
(* Program constants.                                                      *)
(***************************************************************************)
\* utils.py: _SESSION_TTL = timedelta(minutes=30)
SESSION_TTL == 30

VARIABLES
    now,          \* datetime.now(timezone.utc), in minutes
    items,        \* SessionStore._items : session id -> SessionData
    heap,         \* dataframe objects : object id -> dataframe
    run_index,    \* _RUN_INDEX : run id -> session id
    max_sessions, \* the cap handed to configure_session_store
    settings,     \* the plugin settings of the application
    callerDf,     \* object id of the frame passed to the latest create (0: none)
    nextSession,  \* next fresh session id (uuid4)
    nextRun,      \* next fresh run id (uuid4)
    ret,          \* outcome of the latest call
    live,         \* history: per id, whether it was created, not deleted since and
                  \* fetched within the TTL, and the time of the latest fetch
    trained,      \* history: what run_train returned, per run id
    store,        \* core _STORE._items : OrderedDict token -> dataframe
    latest_results,    \* core _LATEST_RESULTS : OrderedDict token -> TrainingResult
    batch_predictions, \* core _BATCH_PREDICTIONS : OrderedDict token -> BatchPredictionResult
    nextToken,    \* next fresh dataset token (uuid4)
    access,       \* history: the stored tokens, least recently accessed first
    evicted,      \* history: the tokens the latest DatasetStore.add evicted
    lastTrain,    \* history: per dataset not dropped since, what its latest
                  \* successful train_on_dataset returned
    lastBatch,    \* history: per dataset not dropped since, the CSV bytes of its
                  \* latest successful predict_batch
    preprocessed, \* history: the sessions run_preprocess has succeeded on
    detected,     \* history: per session, the counts its latest successful
                  \* outlier detection reported (forgotten on reset)
    threads,      \* per request thread, the call it is inside, the statement it
                  \* is at and the values of its locals
    locks,        \* the holder of SessionStore._lock and of DatasetStore._lock
                  \* (0: free)
    dropped,      \* history: the tokens a drop_dataset has returned for
    complete      \* history: per session, the frame it was loaded with and the
                  \* frames the mutating calls on it computed

backendVars == <<now, items, heap, run_index, max_sessions, settings, callerDf,
                 nextSession, nextRun, live, trained>>

coreVars == <<store, latest_results, batch_predictions, nextToken, access, evicted>>

coreHist == <<lastTrain, lastBatch>>

backendHist == <<preprocessed, detected>>

threadVars == <<threads, locks, dropped, complete>>

vars == <<backendVars, coreVars, coreHist, backendHist, threadVars, ret>>

(***************************************************************************)
(* Helpers for Python dicts.                                               *)
(***************************************************************************)
EmptyFn == [k \in {} |-> 0]

Restrict(f, S) == [k \in S |-> f[k]]

Put(f, k, v) == [j \in DOMAIN f \cup {k} |-> IF j = k THEN v ELSE f[j]]

Range(s) == {s[i] : i \in DOMAIN s}

(***************************************************************************)
(* Outcome records.                                                        *)
(***************************************************************************)
NoSummary == [task |-> "", target |-> "", algorithm |-> "", metrics |-> 0]

\* op: the call; ok: it returned (FALSE: it raised); id: the id it was given
\* or returned; err: the message raised; summary: the model summary returned;
\* n: the count returned (rows, outliers)
Ret(op, ok, id, err, summary) ==
    [op |-> op, ok |-> ok, id |-> id, err |-> err, summary |-> summary, n |-> 0,
     args |-> <<>>, out |-> <<>>]

RetN(op, ok, id, err, n) ==
    [op |-> op, ok |-> ok, id |-> id, err |-> err, summary |-> NoSummary, n |-> n,
     args |-> <<>>, out |-> <<>>]

\* args: the arguments of the call; out: the value it returned
RetOut(op, ok, id, err, args, out) ==
    [op |-> op, ok |-> ok, id |-> id, err |-> err, summary |-> NoSummary, n |-> 0,
     args |-> args, out |-> out]

(***************************************************************************)
(* The request threads of the server.  A thread that is inside no call is  *)
(* idle; inside a call it holds the statement it is at and its locals.     *)
(***************************************************************************)
MaxThreads == 2

ThreadIds == 1..MaxThreads

\* the datasets the concurrent requests are made on
MaxRaceTokens == 2

Idle == [pc |-> "idle"]

(***************************************************************************)
(* History of the sessions, kept apart from the store: a session is alive  *)
(* from its creation until it is deleted or cleared, or until more than    *)
(* the TTL has passed since its creation or latest successful fetch.       *)
(***************************************************************************)
Gone(why) == [alive |-> FALSE, since |-> 0, gone |-> why]

Fetched(lv, sid, t) == [lv EXCEPT ![sid] = [alive |-> TRUE, since |-> t, gone |-> ""]]

Dropped(lv, S) ==
    [s \in DOMAIN lv |-> IF s \in S /\ lv[s].alive THEN Gone("deleted") ELSE lv[s]]

Aged(lv, t) ==
    [s \in DOMAIN lv |->
        IF lv[s].alive /\ t - lv[s].since > SESSION_TTL THEN Gone("expired") ELSE lv[s]]

(***************************************************************************)
(* CSV payloads handed to the loaders.  pandas.read_csv either raises      *)
(* (kind "malformed") or yields a table.                                   *)
(***************************************************************************)
Malformed == [kind |-> "malformed", columns |-> <<>>, rows |-> <<>>]

Table(columns, rows) == [kind |-> "table", columns |-> columns, rows |-> rows]

\* a CSV whose cells are text: every column of its frame has the object dtype
TextTable(columns, rows) == [kind |-> "text", columns |-> columns, rows |-> rows]

\* header only: a frame with columns and no rows
CsvHeaderOnly == Table(<<"x", "y">>, <<>>)
\* two rows, the target y has one class
CsvSmall == Table(<<"x", "y">>, << <<0, 1>>, <<2, 1>> >>)
\* two rows, two target classes of one member each
CsvTwoClasses == Table(<<"x", "y">>, << <<0, 0>>, <<2, 1>> >>)
\* four columns: more than max_columns of the test settings
CsvWide == Table(<<"a", "b", "c", "d">>, << <<1, 2, 3, 4>>, <<1, 2, 3, 4>> >>)
\* three rows, two target classes
CsvThree == Table(<<"x", "y">>, << <<0, 0>>, <<1, 0>>, <<5, 1>> >>)
\* two rows of text, two target classes of one member each
CsvText == TextTable(<<"x", "y">>, << <<"a", "p">>, <<"b", "q">> >>)
\* three rows, one far value in x
CsvOutlier == Table(<<"x", "y">>, << <<0, 1>>, <<2, 1>>, <<20, 1>> >>)
\* three rows, one far value in both columns
CsvTwin == Table(<<"x", "y">>, << <<0, 0>>, <<2, 2>>, <<20, 20>> >>)
\* four rows: more than max_rows of the test settings
CsvLong == Table(<<"x", "y">>, << <<0, 1>>, <<1, 1>>, <<2, 1>>, <<3, 1>> >>)

CsvInputs == {Malformed, CsvHeaderOnly, CsvSmall, CsvWide, CsvLong}

\* PLUGIN_SETTINGS["tabular_ml"] as in tests/test_limits.py
SettingsSet == { [max_rows |-> 3, max_columns |-> 3, max_sessions |-> 1] }

(***************************************************************************)
(* backend/utils.py : SessionData and SessionStore                         *)
(***************************************************************************)
NoArtifacts ==
    [present |-> FALSE, target |-> "", task |-> "",
     n_train |-> 0, n_test |-> 0, frame |-> <<>>]

NoPreprocessSummary == [target |-> "", task |-> "", train |-> 0, test |-> 0]

SessionData(obj, sid, t) ==
    [dataframe |-> obj, session_id |-> sid, created_at |-> t,
     last_accessed |-> t, target |-> "",
     preprocess_summary |-> NoPreprocessSummary,
     preprocess_artifacts |-> NoArtifacts,
     outlier_state |-> EmptyFn,
     runs |-> EmptyFn]

touch_stale(session, t) == session

touch(session, t) == [session EXCEPT !.last_accessed = t]

_purge_none(its, t) == its

_purge_locked(its, t) ==
    Restrict(its, {sid \in DOMAIN its : ~(t - its[sid].last_accessed > SESSION_TTL)})

\* dataframe.copy(): the object the store keeps for a frame `obj`, `fresh`
\* being a newly allocated object
dataframe_alias(obj, fresh) == obj

dataframe_copy(obj, fresh) == fresh

\* object ids: the frame a caller hands to the create that issues `sid`, and
\* the object allocated by that create
ArgObj(sid) == 2 * sid - 1

NewObj(sid) == 2 * sid

\* SessionStore.create: the new heap and map for a caller frame `obj`
SessionStore_create(its, h, obj, sid, t) ==
    LET purged == _purge_locked(its, t)
        fresh  == NewObj(sid)
        kept   == dataframe_copy(obj, fresh)
        h2     == Put(h, fresh, h[obj])
    IN  [items |-> Put(purged, sid, SessionData(kept, sid, t)), heap |-> h2]

\* SessionStore.get
SessionStore_get(its, sid, t) ==
    LET purged == _purge_locked(its, t)
    IN  IF sid \in DOMAIN purged
        THEN [ok |-> TRUE, items |-> [purged EXCEPT ![sid] = touch(@, t)]]
        ELSE [ok |-> FALSE, items |-> purged]

\* SessionStore.delete
SessionStore_delete(its, idx, sid) ==
    IF sid \in DOMAIN its
    THEN [items |-> Restrict(its, DOMAIN its \ {sid}),
          run_index |-> Restrict(idx, DOMAIN idx \ DOMAIN its[sid].runs)]
    ELSE [items |-> its, run_index |-> idx]

\* SessionStore.clear
SessionStore_clear(its) == EmptyFn

\* objects no longer referenced are dropped from the heap
Collect(h, its, caller) ==
    Restrict(h, DOMAIN h \cap ({its[s].dataframe : s \in DOMAIN its} \cup {caller}))

(***************************************************************************)
(* backend/utils.py : loaders and the run index                            *)
(***************************************************************************)
\* load_csv_bytes
load_csv_bytes(data) ==
    IF data.kind = "malformed"
    THEN [ok |-> FALSE, err |-> "Invalid CSV data",
          df |-> [columns |-> <<>>, rows |-> <<>>, numeric |-> FALSE]]
    ELSE IF Len(data.rows) = 0 \/ Len(data.columns) = 0
    THEN [ok |-> FALSE, err |-> "CSV file must contain at least one row",
          df |-> [columns |-> <<>>, rows |-> <<>>, numeric |-> FALSE]]
    ELSE [ok |-> TRUE, err |-> "",
          df |-> [columns |-> data.columns, rows |-> data.rows,
                  numeric |-> data.kind # "text"]]

\* store_run
store_run_unindexed(its, idx, sid, run_id, payload) ==
    [items |-> [its EXCEPT ![sid].runs = Put(@, run_id, payload)], run_index |-> idx]

store_run(its, idx, sid, run_id, payload) ==
    [items |-> [its EXCEPT ![sid].runs = Put(@, run_id, payload)],
     run_index |-> IF its[sid].session_id # 0 THEN Put(idx, run_id, its[sid].session_id)
                   ELSE idx]

\* get_run
get_run(session, run_id) ==
    IF run_id \in DOMAIN session.runs
    THEN [ok |-> TRUE, payload |-> session.runs[run_id]]
    ELSE [ok |-> FALSE, payload |-> [run_id |-> 0, model_summary |-> NoSummary]]

\* locate_run
locate_run(its, idx, run_id, t) ==
    IF run_id \notin DOMAIN idx
    THEN [ok |-> FALSE, err |-> "Run ID not found", items |-> its,
          session_id |-> 0, payload |-> [run_id |-> 0, model_summary |-> NoSummary]]
    ELSE LET g == SessionStore_get(its, idx[run_id], t)
         IN  IF ~g.ok
             THEN [ok |-> FALSE, err |-> "Session expired or not found", items |-> g.items,
                   session_id |-> 0, payload |-> [run_id |-> 0, model_summary |-> NoSummary]]
             ELSE LET r == get_run(g.items[idx[run_id]], run_id)
                  IN  [ok |-> r.ok,
                       err |-> IF r.ok THEN "" ELSE "Run not found for session",
                       items |-> g.items, session_id |-> idx[run_id],
                       payload |-> r.payload]

(***************************************************************************)
(* backend/services.py : dataset loading                                   *)
(***************************************************************************)
\* _limits_from_settings
_limits_from_settings(s) ==
    [max_rows     |-> IF "max_rows" \in DOMAIN s THEN s.max_rows ELSE 100000,
     max_columns  |-> IF "max_columns" \in DOMAIN s THEN s.max_columns ELSE 200,
     max_sessions |-> IF "max_sessions" \in DOMAIN s THEN s.max_sessions ELSE 64]

\* configure_session_store(max_sessions): records the cap of the store
configure_session_store(n) == n

\* enforce_dataframe_limits(dataframe, max_rows, max_columns)
enforce_dataframe_limits(df, max_rows, max_columns) ==
    IF Len(df.columns) > max_columns
    THEN [ok |-> FALSE, err |-> "Dataset has too many columns"]
    ELSE IF Len(df.rows) > max_rows
    THEN [ok |-> FALSE, err |-> "Dataset has too many rows"]
    ELSE [ok |-> TRUE, err |-> ""]

\* dataset_load_from_bytes(data, settings)
DatasetLoadFromBytes(data) ==
    LET limits == _limits_from_settings(settings)
        loaded == load_csv_bytes(data)
        within == enforce_dataframe_limits(loaded.df, limits.max_rows, limits.max_columns)
    IN  /\ max_sessions' = configure_session_store(limits.max_sessions)
        /\ IF ~loaded.ok \/ ~within.ok
           THEN /\ ret' = Ret("load", FALSE, 0,
                              IF ~loaded.ok THEN loaded.err ELSE within.err, NoSummary)
                /\ UNCHANGED <<items, heap, callerDf, nextSession, live>>
           ELSE /\ nextSession <= MaxSessionIds
                /\ LET sid    == nextSession
                       arg    == ArgObj(sid)
                       h1     == Put(Collect(heap, items, 0), arg, loaded.df)
                       made   == SessionStore_create(items, h1, arg, sid, now)
                   IN  /\ items' = made.items
                       /\ heap' = Collect(made.heap, made.items, arg)
                       /\ callerDf' = arg
                       /\ nextSession' = nextSession + 1
                       /\ live' = Fetched(live, sid, now)
                       /\ ret' = Ret("load", TRUE, sid, "", NoSummary)
        /\ UNCHANGED <<now, run_index, settings, nextRun, trained>>

(***************************************************************************)
(* backend/preprocess.py                                                   *)
(***************************************************************************)
ColumnIndex(df, name) == CHOOSE i \in 1..Len(df.columns) : df.columns[i] = name

ColumnValues(df, name) == [i \in 1..Len(df.rows) |-> df.rows[i][ColumnIndex(df, name)]]

\* _target_task; is_numeric is pd.api.types.is_numeric_dtype(series)
_target_task(is_numeric, series) ==
    IF is_numeric /\ Cardinality(Range(series)) > 20 THEN "regression"
    ELSE "classification"

ClassCount(series, c) == Cardinality({i \in DOMAIN series : series[i] = c})

\* sklearn.model_selection.train_test_split(train_size=num/den, stratify=...):
\* the sizes of the two parts, or the ValueError it raises
train_test_split(series, num, den, stratify) ==
    LET n       == Len(series)
        n_train == (n * num) \div den
        n_test  == n - n_train
        classes == Range(series)
        failed(err) == [ok |-> FALSE, err |-> err, n_train |-> 0, n_test |-> 0]
    IN  IF n = 0 \/ n_train = 0
        THEN failed("The resulting train set will be empty")
        ELSE IF stratify /\ \E c \in classes : ClassCount(series, c) < 2
        THEN failed("The least populated class in y has only 1 member")
        ELSE IF stratify /\ n_train < Cardinality(classes)
        THEN failed("The train_size should be greater or equal to the number of classes")
        ELSE IF stratify /\ n_test < Cardinality(classes)
        THEN failed("The test_size should be greater or equal to the number of classes")
        ELSE [ok |-> TRUE, err |-> "", n_train |-> n_train, n_test |-> n_test]

\* fit_preprocess(dataframe, request)
fit_preprocess(df, request) ==
    IF request.target \notin Range(df.columns)
    THEN [ok |-> FALSE, err |-> "Target column not found",
          summary |-> NoPreprocessSummary, artifacts |-> NoArtifacts]
    ELSE LET target_series == ColumnValues(df, request.target)
             task  == _target_task(df.numeric, target_series)
             split == train_test_split(target_series, request.train_num, request.train_den,
                                       task = "classification"
                                       /\ Cardinality(Range(target_series)) > 1)
         IN  IF ~split.ok
             THEN [ok |-> FALSE, err |-> split.err,
                   summary |-> NoPreprocessSummary, artifacts |-> NoArtifacts]
             ELSE [ok |-> TRUE, err |-> "",
                   summary |-> [target |-> request.target, task |-> task,
                                train |-> split.n_train, test |-> split.n_test],
                   artifacts |-> [present |-> TRUE, target |-> request.target,
                                  task |-> task, n_train |-> split.n_train,
                                  n_test |-> split.n_test, frame |-> df.rows]]

\* PreprocessRequest: target and split.train (default 0.8)
PreprocessRequests ==
    { [target |-> tg, train_num |-> 8, train_den |-> 10] : tg \in {"y", "missing"} }

(***************************************************************************)
(* backend/services.py : handlers on a session                             *)
(***************************************************************************)
\* get_session as used by the read-only handlers (histogram, box, corr)
GetSession(sid) ==
    LET g == SessionStore_get(items, sid, now)
    IN  /\ items' = g.items
        /\ heap' = Collect(heap, g.items, callerDf)
        /\ live' = IF g.ok THEN Fetched(live, sid, now) ELSE live
        /\ ret' = Ret("get", g.ok, sid,
                      IF g.ok THEN "" ELSE "Session expired or not found", NoSummary)
        /\ UNCHANGED <<now, run_index, max_sessions, settings, callerDf,
                       nextSession, nextRun, trained>>

\* run_preprocess
RunPreprocess(sid, request) ==
    LET g == SessionStore_get(items, sid, now)
    IN  /\ heap' = Collect(heap, g.items, callerDf)
        /\ live' = IF g.ok THEN Fetched(live, sid, now) ELSE live
        /\ IF ~g.ok
           THEN /\ items' = g.items
                /\ ret' = Ret("preprocess", FALSE, sid, "Session expired or not found",
                              NoSummary)
                /\ preprocessed' = preprocessed
           ELSE LET r == fit_preprocess(heap[g.items[sid].dataframe], request)
                IN  IF ~r.ok
                    THEN /\ items' = g.items
                         /\ ret' = Ret("preprocess", FALSE, sid, r.err, NoSummary)
                         /\ preprocessed' = preprocessed
                    ELSE /\ preprocessed' = preprocessed \cup {sid}
                         /\ items' = [g.items EXCEPT
                                        ![sid].target = request.target,
                                        ![sid].preprocess_summary = r.summary,
                                        ![sid].preprocess_artifacts = r.artifacts]
                         /\ ret' = Ret("preprocess", TRUE, sid, "", NoSummary)
        /\ UNCHANGED <<now, run_index, max_sessions, settings, callerDf,
                       nextSession, nextRun, trained>>

\* _estimator_factory: is `algo` available for the task of the artifacts
ClassificationAlgos == {"logreg", "rf", "mlp", "gb", "svc", "extra_trees", "torch_mlp"}

RegressionAlgos == {"logreg", "rf", "mlp", "gb", "extra_trees", "torch_mlp"}

_estimator_factory(artifacts, algo) ==
    IF artifacts.task = "classification"
    THEN algo \in ClassificationAlgos
    ELSE algo \in RegressionAlgos

\* the algorithms a request may name
AlgoInputs == {"rf", "svc", "unknown"}

\* the metrics the library computes, abstracted to a small set
MetricValues == {1, 2}

\* what run_train answers; args names the session the call was for
RetTrain(ok, id, err, summary, sid) ==
    [Ret("train", ok, id, err, summary) EXCEPT !.args = [session_id |-> sid]]

\* a check that takes any container for artifacts
IsPreprocessArtifacts_any(container) == TRUE

\* isinstance(container, PreprocessArtifacts)
IsPreprocessArtifacts(container) == container.present

\* a lookup that derives the split anew from the session's present dataset
session_artifacts_refit(session) ==
    [session.preprocess_artifacts EXCEPT !.frame = heap[session.dataframe].rows]

\* session.preprocess_artifacts.get("artifacts")
session_artifacts(session) == session.preprocess_artifacts

\* run_train; `fitted` is whether cross_val_score/fit/predict returned, and
\* `metric` what they computed; out is the artifacts whose split the pipeline
\* was fitted and evaluated on
RunTrain(sid, algo, fitted, metric) ==
    LET g == SessionStore_get(items, sid, now)
    IN  /\ heap' = Collect(heap, g.items, callerDf)
        /\ live' = IF g.ok THEN Fetched(live, sid, now) ELSE live
        /\ IF ~g.ok
           THEN /\ items' = g.items
                /\ ret' = RetTrain(FALSE, sid, "Session expired or not found",
                                   NoSummary, sid)
                /\ UNCHANGED <<run_index, nextRun, trained>>
           ELSE LET artifacts == session_artifacts(g.items[sid])
                IN  IF ~IsPreprocessArtifacts(artifacts)
                    THEN /\ items' = g.items
                         /\ ret' = RetTrain(FALSE, sid,
                                       "Preprocessing must be executed before training",
                                       NoSummary, sid)
                         /\ UNCHANGED <<run_index, nextRun, trained>>
                    ELSE IF ~_estimator_factory(artifacts, algo)
                    THEN /\ items' = g.items
                         /\ ret' = RetTrain(FALSE, sid, "Unsupported algorithm",
                                            NoSummary, sid)
                         /\ UNCHANGED <<run_index, nextRun, trained>>
                    ELSE IF ~fitted
                    THEN /\ items' = g.items
                         /\ ret' = RetTrain(FALSE, sid, "estimator failed", NoSummary, sid)
                         /\ UNCHANGED <<run_index, nextRun, trained>>
                    ELSE /\ nextRun <= MaxRunIds
                         /\ LET run_id  == nextRun
                                summary == [task |-> artifacts.task,
                                            target |-> artifacts.target,
                                            algorithm |-> algo, metrics |-> metric]
                                payload == [run_id |-> run_id, model_summary |-> summary]
                                stored  == store_run(g.items, run_index, sid, run_id, payload)
                            IN  /\ items' = stored.items
                                /\ run_index' = stored.run_index
                                /\ nextRun' = nextRun + 1
                                /\ trained' = Put(trained, run_id,
                                                  [session_id |-> sid, summary |-> summary])
                                /\ ret' = [RetTrain(TRUE, run_id, "", summary, sid)
                                              EXCEPT !.out = artifacts]
        /\ UNCHANGED <<now, max_sessions, settings, callerDf, nextSession>>

\* run_evaluate
RunEvaluate(run_id) ==
    LET found == locate_run(items, run_index, run_id, now)
        sid   == found.session_id
    IN  /\ items' = found.items
        /\ heap' = Collect(heap, found.items, callerDf)
        /\ live' = IF sid # 0 THEN Fetched(live, sid, now) ELSE live
        /\ ret' = Ret("evaluate", found.ok, run_id, found.err,
                      IF found.ok
                      THEN [task      |-> found.payload.model_summary.task,
                            target    |-> found.payload.model_summary.target,
                            algorithm |-> found.payload.model_summary.algorithm,
                            metrics   |-> found.payload.model_summary.metrics]
                      ELSE NoSummary)
        /\ UNCHANGED <<now, run_index, max_sessions, settings, callerDf,
                       nextSession, nextRun, trained>>

\* clear_session
ClearSession(sid) ==
    LET out == SessionStore_delete(items, run_index, sid)
    IN  /\ items' = out.items
        /\ run_index' = out.run_index
        /\ heap' = Collect(heap, out.items, callerDf)
        /\ live' = Dropped(live, {sid})
        /\ ret' = Ret("delete", TRUE, sid, "", NoSummary)
        /\ UNCHANGED <<now, max_sessions, settings, callerDf, nextSession, nextRun,
                       trained>>

\* SessionStore.clear on the module's store
StoreClear ==
    /\ items # EmptyFn
    /\ items' = SessionStore_clear(items)
    /\ heap' = Collect(heap, EmptyFn, callerDf)
    /\ live' = Dropped(live, DOMAIN live)
    /\ ret' = Ret("clear", TRUE, 0, "", NoSummary)
    /\ UNCHANGED <<now, run_index, max_sessions, settings, callerDf, nextSession,
                   nextRun, trained>>

(***************************************************************************)
(* Environment: the clock, and the caller of create changing its own frame *)
(***************************************************************************)
TickSteps == {15, 16}

Tick(d) ==
    /\ now + d <= MaxTime
    /\ now' = now + d
    /\ live' = Aged(live, now + d)
    /\ ret' = Ret("tick", TRUE, 0, "", NoSummary)
    /\ UNCHANGED <<items, heap, run_index, max_sessions, settings, callerDf,
                   nextSession, nextRun, trained>>

\* the cell values the caller writes into its frame
CallerCells == {7}

MutateCallerFrame ==
    /\ callerDf # 0
    /\ \E cell \in CallerCells :
          /\ heap[callerDf].rows[1][1] # cell
          /\ heap' = [heap EXCEPT ![callerDf].rows[1][1] = cell]
    /\ ret' = Ret("mutate_caller", TRUE, 0, "", NoSummary)
    /\ UNCHANGED <<now, items, run_index, max_sessions, settings, callerDf,
                   nextSession, nextRun, live, trained>>

(***************************************************************************)
(* core/__init__.py : collections.OrderedDict, as a sequence of entries    *)
(* [k, v] in insertion order                                               *)
(***************************************************************************)
OD_Keys(od) == {od[i].k : i \in DOMAIN od}

OD_Get(od, k) == od[CHOOSE i \in DOMAIN od : od[i].k = k].v

\* od.pop(k, None)
OD_Pop(od, k) == SelectSeq(od, LAMBDA e : e.k # k)

\* od[k] = v : a present key keeps its place, a new key goes last
OD_Set(od, k, v) ==
    IF k \in OD_Keys(od)
    THEN [i \in DOMAIN od |-> IF od[i].k = k THEN [k |-> k, v |-> v] ELSE od[i]]
    ELSE Append(od, [k |-> k, v |-> v])

\* od.move_to_end(k)
OD_MoveToEnd(od, k) == Append(OD_Pop(od, k), [k |-> k, v |-> OD_Get(od, k)])

\* while len(od) > limit: od.popitem(last=False)
RECURSIVE OD_Trim(_, _)
OD_Trim(od, limit) == IF Len(od) > limit THEN OD_Trim(Tail(od), limit) ELSE od

(***************************************************************************)
(* core/__init__.py : DatasetStore                                         *)
(***************************************************************************)
\* DatasetStore.max_items: the capacity of the modelled store (the module's
\* _STORE is built with the default, 8)
max_items == 2

\* tokens ever issued by DatasetStore.add
MaxTokens == 3

\* DatasetStore.add
DatasetStore_add(od, token, df) == OD_Trim(OD_Set(od, token, df), max_items)

\* DatasetStore.get
DatasetStore_get_unmoved(od, token) ==
    IF token \in OD_Keys(od)
    THEN [ok |-> TRUE, items |-> od, df |-> OD_Get(od, token)]
    ELSE [ok |-> FALSE, items |-> od,
          df |-> [columns |-> <<>>, rows |-> <<>>, numeric |-> FALSE]]

DatasetStore_get(od, token) ==
    IF token \in OD_Keys(od)
    THEN [ok |-> TRUE, items |-> OD_MoveToEnd(od, token), df |-> OD_Get(od, token)]
    ELSE [ok |-> FALSE, items |-> od,
          df |-> [columns |-> <<>>, rows |-> <<>>, numeric |-> FALSE]]

\* DatasetStore.remove
DatasetStore_remove(od, token) == OD_Pop(od, token)

\* an update that stores the frame whether or not the token is present
DatasetStore_update_upsert(od, token, df) ==
    [ok |-> TRUE, items |-> OD_MoveToEnd(OD_Set(od, token, df), token)]

\* DatasetStore.update
DatasetStore_update(od, token, df) ==
    IF token \notin OD_Keys(od)
    THEN [ok |-> FALSE, items |-> od]
    ELSE [ok |-> TRUE, items |-> OD_MoveToEnd(OD_Set(od, token, df), token)]

(***************************************************************************)
(* History of accesses: creation, every successful get and every update    *)
(* make a token the most recently accessed one; tokens that left the store *)
(* leave the history.                                                      *)
(***************************************************************************)
Accessed(acc, token) == Append(SelectSeq(acc, LAMBDA k : k # token), token)

Present(acc, od) == SelectSeq(acc, LAMBDA k : k \in OD_Keys(od))

Position(acc, token) == CHOOSE i \in DOMAIN acc : acc[i] = token

(***************************************************************************)
(* core/__init__.py : loading and profiling                                *)
(***************************************************************************)
\* a core dataframe: its columns, its rows, and whether its columns have a
\* numeric dtype (read_csv gives the columns of a table without rows the
\* object dtype; every modelled cell is a number)
EmptyFrame == [columns |-> <<>>, rows |-> <<>>, numeric |-> FALSE]

\* DataFrame.empty
IsEmpty(df) == Len(df.rows) = 0 \/ Len(df.columns) = 0

\* load_dataset
load_dataset(data) ==
    IF data.kind = "malformed"
    THEN [ok |-> FALSE, err |-> "Invalid CSV file", df |-> EmptyFrame]
    ELSE [ok |-> TRUE, err |-> "",
          df |-> [columns |-> data.columns, rows |-> data.rows,
                  numeric |-> Len(data.rows) > 0]]

\* build_profile: the shape it reports, or the error it raises
build_profile(dataset_id, df) ==
    IF IsEmpty(df)
    THEN [ok |-> FALSE, err |-> "Dataset must contain rows", dataset_id |-> 0, rows |-> 0]
    ELSE [ok |-> TRUE, err |-> "", dataset_id |-> dataset_id, rows |-> Len(df.rows)]

\* register_dataset
RegisterDataset(data) ==
    LET loaded == load_dataset(data)
    IN  IF ~loaded.ok
        THEN /\ ret' = RetN("register", FALSE, 0, loaded.err, 0)
             /\ evicted' = {}
             /\ UNCHANGED <<store, latest_results, batch_predictions, nextToken, access>>
        ELSE /\ nextToken <= MaxTokens
             /\ LET token   == nextToken
                    added   == DatasetStore_add(store, token, loaded.df)
                    profile == build_profile(token, loaded.df)
                IN  /\ store' = added
                    /\ nextToken' = nextToken + 1
                    /\ access' = Present(Accessed(access, token), added)
                    /\ evicted' = OD_Keys(store) \ OD_Keys(added)
                    /\ ret' = RetN("register", profile.ok, profile.dataset_id,
                                   profile.err, profile.rows)
             /\ UNCHANGED <<latest_results, batch_predictions>>

\* get_dataset
GetDataset(token) ==
    LET got == DatasetStore_get(store, token)
    IN  /\ store' = got.items
        /\ access' = IF got.ok THEN Accessed(access, token) ELSE access
        /\ evicted' = {}
        /\ ret' = RetN("get_dataset", got.ok, token,
                       IF got.ok THEN "" ELSE "Dataset reference expired. Upload again.",
                       Len(got.df.rows))
        /\ UNCHANGED <<latest_results, batch_predictions, nextToken>>

\* drop_dataset
DropDataset(token) ==
    /\ store' = DatasetStore_remove(store, token)
    /\ latest_results' = OD_Pop(latest_results, token)
    /\ batch_predictions' = OD_Pop(batch_predictions, token)
    /\ access' = SelectSeq(access, LAMBDA k : k # token)
    /\ evicted' = {}
    /\ ret' = RetN("drop_dataset", TRUE, token, "", 0)
    /\ lastTrain' = Restrict(lastTrain, DOMAIN lastTrain \ {token})
    /\ lastBatch' = Restrict(lastBatch, DOMAIN lastBatch \ {token})
    /\ UNCHANGED nextToken

(***************************************************************************)
(* core/__init__.py : z-score outliers.  A threshold is a fraction         *)
(* [num, den]; |z| > num/den is decided exactly on integers:               *)
(* z = (n*v - S) / sqrt(n*Q - S*S) for the column sum S and square sum Q.  *)
(***************************************************************************)
RECURSIVE SumSeq(_)
SumSeq(q) == IF q = <<>> THEN 0 ELSE Head(q) + SumSeq(Tail(q))

Squares(q) == [i \in DOMAIN q |-> q[i] * q[i]]

\* n*n*variance (ddof=0) of a column
ScaledVariance(series) ==
    Len(series) * SumSeq(Squares(series)) - SumSeq(series) * SumSeq(series)

\* |z-score of cell i| > threshold; a column of zero deviation has z = 0
ZExceeds(series, i, threshold) ==
    LET dev == Len(series) * series[i] - SumSeq(series)
    IN  /\ ScaledVariance(series) # 0
        /\ dev * dev * threshold.den * threshold.den
               > threshold.num * threshold.num * ScaledVariance(series)

\* _numeric_columns
_numeric_columns(df, columns) ==
    IF columns # <<>>
    THEN IF \E i \in DOMAIN columns : columns[i] \notin Range(df.columns)
         THEN [ok |-> FALSE, err |-> "Columns not found", columns |-> <<>>]
         ELSE IF ~df.numeric
         THEN [ok |-> FALSE, err |-> "Selected columns do not contain numeric values",
               columns |-> <<>>]
         ELSE [ok |-> TRUE, err |-> "", columns |-> columns]
    ELSE IF Len(df.columns) = 0 \/ ~df.numeric
         THEN [ok |-> FALSE, err |-> "Dataset has no numeric columns available",
               columns |-> <<>>]
         ELSE [ok |-> TRUE, err |-> "", columns |-> df.columns]

\* the rows flagged by (z_scores.abs() > threshold).any(axis=1)
OutlierRows(df, columns, threshold) ==
    {i \in 1..Len(df.rows) :
        \E c \in DOMAIN columns : ZExceeds(ColumnValues(df, columns[c]), i, threshold)}

\* detect_outliers on the frame get_dataset returned
detect_outliers(df, columns, threshold) ==
    IF threshold.num <= 0
    THEN [ok |-> FALSE, err |-> "Outlier threshold must be a positive number",
          inspected_columns |-> <<>>, total_outliers |-> 0]
    ELSE LET numeric == _numeric_columns(df, columns)
         IN  IF ~numeric.ok
             THEN [ok |-> FALSE, err |-> numeric.err,
                   inspected_columns |-> <<>>, total_outliers |-> 0]
             ELSE [ok |-> TRUE, err |-> "", inspected_columns |-> numeric.columns,
                   total_outliers |->
                       Cardinality(OutlierRows(df, numeric.columns, threshold))]

\* an indexing that keeps every row
KeepRows_all(df, keep) == df

\* df.loc[keep].reset_index(drop=True)
KeepRows(df, keep) ==
    [df EXCEPT !.rows =
        LET RECURSIVE Pick(_)
            Pick(i) == IF i > Len(df.rows) THEN <<>>
                       ELSE IF i \in keep THEN <<df.rows[i]>> \o Pick(i + 1)
                       ELSE Pick(i + 1)
        IN  Pick(1)]

\* detect_outliers(dataset_id, columns, threshold)
DetectOutliers(token, columns, threshold) ==
    LET got == DatasetStore_get(store, token)
    IN  /\ store' = got.items
        /\ access' = IF got.ok THEN Accessed(access, token) ELSE access
        /\ evicted' = {}
        /\ IF ~got.ok
           THEN ret' = RetN("detect_outliers", FALSE, token,
                            "Dataset reference expired. Upload again.", 0)
           ELSE LET report == detect_outliers(got.df, columns, threshold)
                IN  ret' = RetN("detect_outliers", report.ok, token, report.err,
                                report.total_outliers)
        /\ UNCHANGED <<latest_results, batch_predictions, nextToken>>

\* remove_outliers(dataset_id, columns, threshold)
RemoveOutliers(token, columns, threshold) ==
    LET got == DatasetStore_get(store, token)
    IN  /\ evicted' = {}
        /\ access' = IF got.ok THEN Accessed(access, token) ELSE access
        /\ IF ~got.ok
           THEN /\ store' = got.items
                /\ ret' = RetN("remove_outliers", FALSE, token,
                               "Dataset reference expired. Upload again.", 0)
           ELSE LET again  == DatasetStore_get(got.items, token)
                    report == detect_outliers(again.df, columns, threshold)
                IN  IF ~report.ok
                    THEN /\ store' = again.items
                         /\ ret' = RetN("remove_outliers", FALSE, token, report.err, 0)
                    ELSE LET flagged == OutlierRows(got.df, report.inspected_columns,
                                                    threshold)
                             cleaned == KeepRows(got.df, (1..Len(got.df.rows)) \ flagged)
                             updated == DatasetStore_update(again.items, token, cleaned)
                             profile == build_profile(token, cleaned)
                         IN  /\ store' = updated.items
                             /\ ret' = RetN("remove_outliers", updated.ok /\ profile.ok,
                                            token,
                                            IF ~updated.ok
                                            THEN "Dataset reference expired. Upload again."
                                            ELSE profile.err,
                                            profile.rows)
        /\ UNCHANGED <<latest_results, batch_predictions, nextToken>>

(***************************************************************************)
(* core/__init__.py : filter_rows                                          *)
(***************************************************************************)
\* the decimal digits of a natural, as str() prints them
RECURSIVE Digits(_)
Digits(n) == IF n < 10 THEN <<n>> ELSE Digits(n \div 10) \o <<n % 10>>

\* str(cell) contains str(value)
StrContains(cell, value) ==
    LET hay == Digits(cell)
        pin == Digits(value)
    IN  \E off \in 0..(Len(hay) - Len(pin)) :
            \A j \in 1..Len(pin) : hay[off + j] = pin[j]

\* SUPPORTED_FILTER_OPERATORS; `value` is a set for "in" and a number otherwise
SUPPORTED_FILTER_OPERATORS == {"eq", "ne", "gt", "gte", "lt", "lte", "contains", "in"}

Comparator(operator, cell, value) ==
    CASE operator = "eq"       -> cell = value
      [] operator = "ne"       -> cell # value
      [] operator = "gt"       -> cell > value
      [] operator = "gte"      -> cell >= value
      [] operator = "lt"       -> cell < value
      [] operator = "lte"      -> cell <= value
      [] operator = "contains" -> StrContains(cell, value)
      [] operator = "in"       -> cell \in value

\* the first rule that makes filter_rows raise (0: none)
BadRule(df, rules) ==
    IF \E i \in DOMAIN rules :
          rules[i].column \notin Range(df.columns)
          \/ rules[i].operator \notin SUPPORTED_FILTER_OPERATORS
    THEN CHOOSE i \in DOMAIN rules :
            /\ rules[i].column \notin Range(df.columns)
               \/ rules[i].operator \notin SUPPORTED_FILTER_OPERATORS
            /\ \A j \in 1..(i - 1) :
                  /\ rules[j].column \in Range(df.columns)
                  /\ rules[j].operator \in SUPPORTED_FILTER_OPERATORS
    ELSE 0

\* the rows for which every rule holds
FilterMask(df, rules) ==
    {i \in 1..Len(df.rows) :
        \A r \in DOMAIN rules :
            Comparator(rules[r].operator,
                       ColumnValues(df, rules[r].column)[i], rules[r].value)}

\* filter_rows(dataset_id, rules)
FilterRows(token, rules) ==
    LET got == DatasetStore_get(store, token)
    IN  /\ evicted' = {}
        /\ access' = IF got.ok THEN Accessed(access, token) ELSE access
        /\ IF ~got.ok
           THEN /\ store' = got.items
                /\ ret' = RetN("filter_rows", FALSE, token,
                               "Dataset reference expired. Upload again.", 0)
           ELSE IF rules = <<>>
           THEN /\ store' = got.items
                /\ ret' = RetN("filter_rows", FALSE, token,
                               "Provide at least one filter rule", 0)
           ELSE IF BadRule(got.df, rules) # 0
           THEN /\ store' = got.items
                /\ ret' = RetN("filter_rows", FALSE, token,
                               IF rules[BadRule(got.df, rules)].column
                                      \notin Range(got.df.columns)
                               THEN "Column not found in dataset"
                               ELSE "Unsupported operator", 0)
           ELSE LET filtered == KeepRows(got.df, FilterMask(got.df, rules))
                IN  IF IsEmpty(filtered)
                    THEN /\ store' = got.items
                         /\ ret' = RetN("filter_rows", FALSE, token,
                                        "Filters removed all rows. Adjust the criteria.", 0)
                    ELSE LET updated == DatasetStore_update(got.items, token, filtered)
                             profile == build_profile(token, filtered)
                         IN  /\ store' = updated.items
                             /\ ret' = RetN("filter_rows", updated.ok /\ profile.ok, token,
                                            IF ~updated.ok
                                            THEN "Dataset reference expired. Upload again."
                                            ELSE profile.err,
                                            Len(got.df.rows) - Len(filtered.rows))
        /\ UNCHANGED <<latest_results, batch_predictions, nextToken>>

(***************************************************************************)
(* core/__init__.py : the algorithm registry and its hyperparameters       *)
(***************************************************************************)
IntParam == [type |-> "int", nullable |-> FALSE, choices |-> {}]

NullableIntParam == [type |-> "int", nullable |-> TRUE, choices |-> {}]

FloatParam == [type |-> "float", nullable |-> FALSE, choices |-> {}]

BoolParam == [type |-> "bool", nullable |-> FALSE, choices |-> {}]

SelectParam(choices) == [type |-> "select", nullable |-> FALSE, choices |-> choices]

ForestParams ==
    [n_estimators |-> IntParam, max_depth |-> NullableIntParam,
     min_samples_split |-> IntParam]

BoostingParams ==
    [n_estimators |-> IntParam, learning_rate |-> FloatParam, max_depth |-> IntParam]

\* _algorithm_specs()[algorithm]["tasks"][task]
_algorithm_specs ==
    [linear_model |->
        [classification |->
            [use_scaler |-> TRUE,
             hyperparameters |->
                 [max_iter |-> IntParam, C |-> FloatParam,
                  penalty |-> SelectParam({"l2", "none"}),
                  solver |-> SelectParam({"lbfgs", "saga"})]],
         regression |->
            [use_scaler |-> TRUE,
             hyperparameters |-> [alpha |-> FloatParam, fit_intercept |-> BoolParam]]],
     random_forest |->
        [classification |-> [use_scaler |-> FALSE, hyperparameters |-> ForestParams],
         regression |-> [use_scaler |-> FALSE, hyperparameters |-> ForestParams]],
     gradient_boosting |->
        [classification |-> [use_scaler |-> FALSE, hyperparameters |-> BoostingParams],
         regression |-> [use_scaler |-> FALSE, hyperparameters |-> BoostingParams]]]

\* float(value) on the string values of the model: a finite number (kept in
\* tenths), inf, nan, or a ValueError ("invalid")
FloatLiterals ==
    [v \in {"250", "2.5", "inf", "nan"} |->
        CASE v = "250" -> [kind |-> "finite", tenths |-> 2500]
          [] v = "2.5" -> [kind |-> "finite", tenths |-> 25]
          [] v = "inf" -> [kind |-> "inf", tenths |-> 0]
          [] v = "nan" -> [kind |-> "nan", tenths |-> 0]]

float(value) ==
    IF value \in DOMAIN FloatLiterals THEN FloatLiterals[value]
    ELSE [kind |-> "invalid", tenths |-> 0]

\* a coerced hyperparameter value
ParamValue(kind, n, text) == [kind |-> kind, n |-> n, s |-> text]

Coerced(value) == [exc |-> "", err |-> "", value |-> value]

Raised(exc, err) == [exc |-> exc, err |-> err, value |-> ParamValue("", 0, "")]

\* the type coercion of one override in _apply_hyperparameters
CoerceOverride(definition, value) ==
    CASE definition.type = "int" ->
            \* int(float(value)): ValueError on text and nan, OverflowError on inf
            IF float(value).kind \in {"invalid", "nan"}
            THEN Raised("TabularError", "Hyperparameter must be an integer")
            ELSE IF float(value).kind = "inf"
            THEN Raised("OverflowError", "cannot convert float infinity to integer")
            ELSE Coerced(ParamValue("int", float(value).tenths \div 10, ""))
      [] definition.type = "float" ->
            IF float(value).kind = "invalid"
            THEN Raised("TabularError", "Hyperparameter must be numeric")
            ELSE Coerced(ParamValue("float", float(value).tenths, float(value).kind))
      [] definition.type = "bool" ->
            IF value \in {"true", "1", "yes"} THEN Coerced(ParamValue("bool", 1, ""))
            ELSE IF value \in {"false", "0", "no"} THEN Coerced(ParamValue("bool", 0, ""))
            ELSE Raised("TabularError", "Hyperparameter must be true or false")
      [] definition.type = "select" ->
            IF value \in definition.choices THEN Coerced(ParamValue("select", 0, value))
            ELSE Raised("TabularError", "Hyperparameter must be one of the choices")

\* _apply_hyperparameters: overrides is the sequence of the mapping's items;
\* the result is the parameters given to estimator.set_params, or the
\* exception raised
RECURSIVE ResolveOverrides(_, _, _)
ResolveOverrides(allowed, overrides, resolved) ==
    IF overrides = <<>> THEN [exc |-> "", err |-> "", resolved |-> resolved]
    ELSE LET key == Head(overrides).key
         IN  IF key \notin DOMAIN allowed
             THEN ResolveOverrides(allowed, Tail(overrides), resolved)
             ELSE LET c == CoerceOverride(allowed[key], Head(overrides).value)
                  IN  IF c.exc # ""
                      THEN [exc |-> c.exc, err |-> c.err, resolved |-> <<>>]
                      ELSE ResolveOverrides(
                               allowed, Tail(overrides),
                               Append(resolved,
                                      [key |-> key,
                                       value |-> IF allowed[key].nullable
                                                    /\ c.value.kind = "select"
                                                    /\ c.value.s = ""
                                                 THEN ParamValue("none", 0, "")
                                                 ELSE c.value]))

\* an application that sets every override on the estimator as soon as it is
\* coerced: the calls to estimator.set_params made up to the first failure
RECURSIVE EagerCalls(_, _)
EagerCalls(allowed, overrides) ==
    IF overrides = <<>> THEN <<>>
    ELSE IF Head(overrides).key \notin DOMAIN allowed
    THEN EagerCalls(allowed, Tail(overrides))
    ELSE IF CoerceOverride(allowed[Head(overrides).key], Head(overrides).value).exc # ""
    THEN <<>>
    ELSE << ResolveOverrides(allowed, <<Head(overrides)>>, <<>>).resolved >>
             \o EagerCalls(allowed, Tail(overrides))

_apply_hyperparameters_eager(algorithm, task, overrides) ==
    LET allowed == _algorithm_specs[algorithm][task].hyperparameters
        outcome == ResolveOverrides(allowed, overrides, <<>>)
    IN  [exc |-> outcome.exc, err |-> outcome.err, resolved |-> outcome.resolved,
         set_params |-> EagerCalls(allowed, overrides)]

\* set_params: the calls made to estimator.set_params, each with its keyword
\* arguments: one call with everything resolved, after the loop, and none when
\* an override was rejected or nothing was resolved
_apply_hyperparameters(algorithm, task, overrides) ==
    LET outcome == ResolveOverrides(_algorithm_specs[algorithm][task].hyperparameters,
                                    overrides, <<>>)
    IN  [exc |-> outcome.exc, err |-> outcome.err, resolved |-> outcome.resolved,
         set_params |-> IF outcome.exc = "" /\ outcome.resolved # <<>>
                        THEN <<outcome.resolved>> ELSE <<>>]

(***************************************************************************)
(* core/__init__.py : training                                             *)
(***************************************************************************)
Max(a, b) == IF a >= b THEN a ELSE b

NoResult ==
    [task |-> "", algorithm |-> "", feature_columns |-> <<>>, target_column |-> "",
     scaler |-> FALSE, estimator |-> [algorithm |-> "", task |-> "", params |-> <<>>]]

TrainFailed(exc, err) ==
    [ok |-> FALSE, exc |-> exc, err |-> err, result |-> NoResult, set_params |-> <<>>]

\* _prepare: the feature columns and the target series, or the error
_prepare(df, target) ==
    IF target \notin Range(df.columns)
    THEN [ok |-> FALSE, err |-> "Target column not found", X |-> <<>>, y |-> <<>>]
    ELSE LET features == SelectSeq(df.columns, LAMBDA c : c # target)
         IN  IF Len(features) = 0 \/ Len(df.rows) = 0
             THEN [ok |-> FALSE, err |-> "Dataset must contain feature columns",
                   X |-> <<>>, y |-> <<>>]
             ELSE IF ~df.numeric
             THEN [ok |-> FALSE, err |-> "Only numeric features are supported",
                   X |-> <<>>, y |-> <<>>]
             ELSE [ok |-> TRUE, err |-> "", X |-> features,
                   y |-> ColumnValues(df, target)]

\* _is_classification: y.nunique() <= max(10, int(len(y) * 0.05))
_is_classification(y) == Cardinality(Range(y)) <= Max(10, (Len(y) * 5) \div 100)

\* _resolve_algorithm: the registry key, or "" when it is not supported
_resolve_algorithm(task, requested) ==
    LET normalized == IF requested \in {"", "auto"} THEN "linear_model" ELSE requested
    IN  IF normalized \in DOMAIN _algorithm_specs THEN normalized ELSE ""

\* train_model; `fitted` is whether the estimator's fit and predict returned.
\* The tables of the model have fewer than 8 rows, so no holdout split is
\* made: the estimator is fitted and scored on the whole table.
train_model(df, target, algorithm, hyperparameters, fitted) ==
    LET prepared == _prepare(df, target)
    IN  IF ~prepared.ok THEN TrainFailed("TabularError", prepared.err)
        ELSE LET task == IF _is_classification(prepared.y) THEN "classification"
                         ELSE "regression"
                 resolved_algorithm == _resolve_algorithm(task, algorithm)
             IN  IF resolved_algorithm = ""
                 THEN TrainFailed("TabularError", "Unsupported algorithm selected")
                 ELSE LET applied == _apply_hyperparameters(resolved_algorithm, task,
                                                            hyperparameters)
                      IN  IF applied.exc # ""
                          THEN [TrainFailed(applied.exc, applied.err)
                                    EXCEPT !.set_params = applied.set_params]
                          ELSE IF ~fitted
                          THEN [TrainFailed("ValueError", "estimator failed")
                                    EXCEPT !.set_params = applied.set_params]
                          ELSE [ok |-> TRUE, exc |-> "", err |-> "",
                                set_params |-> applied.set_params,
                                result |->
                                    [task |-> task,
                                     algorithm |-> resolved_algorithm,
                                     feature_columns |-> prepared.X,
                                     target_column |-> target,
                                     scaler |-> _algorithm_specs[resolved_algorithm][task]
                                                    .use_scaler,
                                     estimator |-> [algorithm |-> resolved_algorithm,
                                                    task |-> task,
                                                    params |-> applied.resolved]]]

TrainArgs(target, algorithm, hyperparameters) ==
    [target |-> target, algorithm |-> algorithm, hyperparameters |-> hyperparameters]

\* what a train_on_dataset call answered, with the calls it made to the
\* estimator's set_params
RetTrainOn(ok, token, err, args, out, set_params) ==
    [op |-> "train_on_dataset", ok |-> ok, id |-> token, err |-> err,
     summary |-> NoSummary, n |-> 0, args |-> args, out |-> out,
     set_params |-> set_params]

\* train_on_dataset
TrainOnDataset(token, target, algorithm, hyperparameters, fitted) ==
    LET got  == DatasetStore_get(store, token)
        args == TrainArgs(target, algorithm, hyperparameters)
    IN  /\ store' = got.items
        /\ access' = IF got.ok THEN Accessed(access, token) ELSE access
        /\ evicted' = {}
        /\ IF ~got.ok
           THEN /\ ret' = RetTrainOn(FALSE, token, "Dataset reference expired. Upload again.",
                                     args, NoResult, <<>>)
                /\ UNCHANGED <<latest_results, lastTrain>>
           ELSE LET trained_model == train_model(got.df, target, algorithm,
                                                 hyperparameters, fitted)
                IN  IF ~trained_model.ok
                    THEN /\ ret' = RetTrainOn(FALSE, token, trained_model.err, args,
                                              NoResult, trained_model.set_params)
                         /\ UNCHANGED <<latest_results, lastTrain>>
                    ELSE /\ latest_results' =
                                OD_Trim(OD_Set(latest_results, token, trained_model.result),
                                        max_items)
                         /\ lastTrain' = Put(lastTrain, token, trained_model.result)
                         /\ ret' = RetTrainOn(TRUE, token, "", args, trained_model.result,
                                              trained_model.set_params)
        /\ UNCHANGED <<batch_predictions, nextToken, lastBatch>>

\* a lookup that finds no result for any dataset
latest_result_none(results, dataset_id) == [found |-> FALSE, result |-> NoResult]

\* latest_result
latest_result(results, dataset_id) ==
    IF dataset_id \in OD_Keys(results)
    THEN [found |-> TRUE, result |-> OD_Get(results, dataset_id)]
    ELSE [found |-> FALSE, result |-> NoResult]

LatestResult(token) ==
    /\ ret' = RetOut("latest_result", latest_result(latest_results, token).found, token,
                     "", <<>>, latest_result(latest_results, token).result)
    /\ evicted' = {}
    /\ UNCHANGED <<store, latest_results, batch_predictions, nextToken, access,
                   lastTrain, lastBatch>>

(***************************************************************************)
(* core/__init__.py : inference.  A prediction is kept as the estimator    *)
(* that made it and the feature values it was made from.                   *)
(***************************************************************************)
\* a feature value given by a caller: a finite number, or a string
Number(n) == [number |-> TRUE, n |-> n, s |-> ""]

Text(s) == [number |-> FALSE, n |-> 0, s |-> s]

\* _normalise_feature_value: the error raised, "" when the value is taken
_normalise_feature_value(value) ==
    IF value.number THEN ""
    ELSE IF value.s = "" THEN "Feature is required for inference"
    ELSE IF float(value.s).kind = "invalid" THEN "Feature must be numeric"
    ELSE IF float(value.s).kind # "finite" THEN "Feature must be a finite number"
    ELSE ""

\* a mapping given as the sequence of its items
RowKeys(row) == {row[i].key : i \in DOMAIN row}

RowGet(row, key) == row[CHOOSE i \in DOMAIN row : row[i].key = key].value

\* the loop of _build_feature_matrix over the feature columns of one row
RECURSIVE FeatureError(_, _)
FeatureError(columns, row) ==
    IF columns = <<>> THEN ""
    ELSE IF Head(columns) \notin RowKeys(row) THEN "Missing feature for inference"
    ELSE IF _normalise_feature_value(RowGet(row, Head(columns))) # ""
    THEN _normalise_feature_value(RowGet(row, Head(columns)))
    ELSE FeatureError(Tail(columns), row)

\* _build_feature_matrix for one row: the error raised, "" when it is built
_build_feature_matrix(result, row) ==
    IF result.feature_columns = <<>>
    THEN "Model does not expose numeric features for inference"
    ELSE FeatureError(result.feature_columns, row)

NoPayload ==
    [task |-> "", target |-> "", feature_columns |-> <<>>,
     estimator |-> NoResult.estimator]

\* predict_single
predict_single(results, dataset_id, features) ==
    LET latest == latest_result(results, dataset_id)
    IN  IF ~latest.found
        THEN [ok |-> FALSE, exc |-> "ModelNotReadyError",
              err |-> "Train a model before running inference", payload |-> NoPayload]
        ELSE IF _build_feature_matrix(latest.result, features) # ""
        THEN [ok |-> FALSE, exc |-> "TabularError",
              err |-> _build_feature_matrix(latest.result, features),
              payload |-> NoPayload]
        ELSE [ok |-> TRUE, exc |-> "", err |-> "",
              payload |-> [task |-> latest.result.task,
                           target |-> latest.result.target_column,
                           feature_columns |-> latest.result.feature_columns,
                           estimator |-> latest.result.estimator]]

PredictSingle(token, features) ==
    LET answer == predict_single(latest_results, token, features)
    IN  /\ ret' = RetOut("predict_single", answer.ok, token, answer.err, features,
                         answer.payload)
        /\ evicted' = {}
        /\ UNCHANGED <<store, latest_results, batch_predictions, nextToken, access,
                       lastTrain, lastBatch>>

NoBytes == [columns |-> <<>>, rows |-> <<>>, estimator |-> NoResult.estimator]

NoBatch == [columns |-> <<>>, row_count |-> 0, csv_bytes |-> NoBytes]

BatchFailed(exc, err) == [ok |-> FALSE, exc |-> exc, err |-> err, batch |-> NoBatch]

\* the columns of the output frame: the features, the predictions under the
\* target's name, and the confidence of a classifier
OutputColumns(result) ==
    result.feature_columns
        \o << IF result.target_column # "" THEN result.target_column ELSE "prediction" >>
        \o (IF result.task = "classification" THEN <<"confidence">> ELSE <<>>)

\* predict_batch up to the result it builds
predict_batch(results, dataset_id, data) ==
    LET latest == latest_result(results, dataset_id)
        loaded == load_dataset(data)
        frame  == loaded.df
    IN  IF ~latest.found
        THEN BatchFailed("ModelNotReadyError", "Train a model before running inference")
        ELSE IF ~loaded.ok THEN BatchFailed("TabularError", loaded.err)
        ELSE IF Len(frame.rows) = 0 \/ Len(frame.columns) = 0
        THEN BatchFailed("TabularError", "Batch CSV must contain at least one row")
        ELSE IF \E c \in Range(latest.result.feature_columns) : c \notin Range(frame.columns)
        THEN BatchFailed("TabularError", "Batch CSV is missing required feature columns")
        ELSE IF ~frame.numeric
        THEN BatchFailed("TabularError",
                         "Batch CSV contains non-numeric or missing feature values")
        ELSE [ok |-> TRUE, exc |-> "", err |-> "",
              batch |->
                  [columns |-> OutputColumns(latest.result),
                   row_count |-> Len(frame.rows),
                   csv_bytes |->
                       [columns |-> OutputColumns(latest.result),
                        rows |-> [i \in 1..Len(frame.rows) |->
                                    [j \in 1..Len(latest.result.feature_columns) |->
                                        ColumnValues(
                                            frame, latest.result.feature_columns[j])[i]]],
                        estimator |-> latest.result.estimator]]]

PredictBatch(token, data) ==
    LET answer == predict_batch(latest_results, token, data)
    IN  /\ ret' = RetOut("predict_batch", answer.ok, token, answer.err, data, answer.batch)
        /\ IF answer.ok
           THEN /\ batch_predictions' =
                       OD_Trim(OD_Set(batch_predictions, token, answer.batch), max_items)
                /\ lastBatch' = Put(lastBatch, token, answer.batch.csv_bytes)
           ELSE UNCHANGED <<batch_predictions, lastBatch>>
        /\ evicted' = {}
        /\ UNCHANGED <<store, latest_results, nextToken, access, lastTrain>>

\* a lookup that answers with the oldest cached batch
latest_batch_prediction_first(batches, dataset_id) ==
    IF Len(batches) > 0
    THEN [found |-> TRUE, batch |-> Head(batches).v]
    ELSE [found |-> FALSE, batch |-> NoBatch]

\* latest_batch_prediction
latest_batch_prediction(batches, dataset_id) ==
    IF dataset_id \in OD_Keys(batches)
    THEN [found |-> TRUE, batch |-> OD_Get(batches, dataset_id)]
    ELSE [found |-> FALSE, batch |-> NoBatch]

\* export_batch_predictions_csv
ExportBatchPredictionsCsv(token) ==
    LET latest == latest_batch_prediction(batch_predictions, token)
    IN  /\ ret' = RetOut("export_batch_predictions_csv", latest.found, token,
                         IF latest.found THEN ""
                         ELSE "Run batch predictions before downloading results",
                         <<>>, latest.batch.csv_bytes)
        /\ evicted' = {}
        /\ UNCHANGED <<store, latest_results, batch_predictions, nextToken, access,
                       lastTrain, lastBatch>>

(***************************************************************************)
(* backend/outliers.py.  A parameter (k, z) is a fraction [num, den].      *)
(***************************************************************************)
Fraction(num, den) == [num |-> num, den |-> den]

\* `value or default`: None and 0 give the default
OrDefault(value, default) == IF value.num = 0 THEN default ELSE value

\* _numeric_frame: the columns of a frame are all numeric or all text; the
\* numeric part is empty when there is none, or no row
_numeric_frame(dataframe) ==
    IF ~dataframe.numeric \/ Len(dataframe.rows) = 0 \/ Len(dataframe.columns) = 0
    THEN [ok |-> FALSE,
          err |-> "Dataset does not contain numeric columns for outlier detection"]
    ELSE [ok |-> TRUE, err |-> ""]

RECURSIVE Insert(_, _)
Insert(x, q) ==
    IF q = <<>> THEN <<x>>
    ELSE IF x <= Head(q) THEN <<x>> \o q
    ELSE <<Head(q)>> \o Insert(x, Tail(q))

RECURSIVE SortedValues(_)
SortedValues(q) == IF q = <<>> THEN <<>> ELSE Insert(Head(q), SortedValues(Tail(q)))

\* 4 * series.quantile(quarters / 4), with pandas' linear interpolation
Quantile4(series, quarters) ==
    LET v    == SortedValues(series)
        pos4 == (Len(series) - 1) * quarters
        lo   == (pos4 \div 4) + 1
    IN  IF pos4 % 4 = 0 THEN 4 * v[lo]
        ELSE 4 * v[lo] + (pos4 % 4) * (v[lo + 1] - v[lo])

\* lower = q1 - k * iqr and upper = q3 + k * iqr, both times `scale`
IqrBounds(series, k) ==
    LET q1 == Quantile4(series, 1)
        q3 == Quantile4(series, 3)
    IN  [scale |-> 4 * k.den,
         lower |-> k.den * q1 - k.num * (q3 - q1),
         upper |-> k.den * q3 + k.num * (q3 - q1)]

\* _iqr_mask on a frame that has numeric rows
_iqr_mask(dataframe, k) ==
    [i \in 1..Len(dataframe.rows) |->
        \A c \in DOMAIN dataframe.columns :
            LET series == ColumnValues(dataframe, dataframe.columns[c])
                b      == IqrBounds(series, k)
            IN  /\ series[i] * b.scale >= b.lower
                /\ series[i] * b.scale <= b.upper]

\* _zscore_mask on a frame that has numeric rows
_zscore_mask(dataframe, threshold) ==
    [i \in 1..Len(dataframe.rows) |->
        \A c \in DOMAIN dataframe.columns :
            ~ZExceeds(ColumnValues(dataframe, dataframe.columns[c]), i, threshold)]

\* _compute_mask; `forest` is what IsolationForest.fit_predict answered
_compute_mask(dataframe, request, forest) ==
    IF ~_numeric_frame(dataframe).ok
    THEN [ok |-> FALSE, err |-> _numeric_frame(dataframe).err, mask |-> <<>>]
    ELSE [ok |-> TRUE, err |-> "",
          mask |-> CASE request.method = "iqr" ->
                          _iqr_mask(dataframe, OrDefault(request.params.k, Fraction(3, 2)))
                     [] request.method = "zscore" ->
                          _zscore_mask(dataframe,
                                       OrDefault(request.params.z, Fraction(3, 1)))
                     [] OTHER -> forest]

CountOf(mask, b) == Cardinality({i \in DOMAIN mask : mask[i] = b})

\* the stored state, negated: the mask of the outliers instead of the inliers
outlier_state_inverted(mask, request) ==
    [mask |-> [i \in DOMAIN mask |-> ~mask[i]], method |-> request.method,
     params |-> request.params]

\* session.outlier_state = {"mask": ..., "method": ..., "params": ...}
outlier_state_of(mask, request) ==
    [mask |-> mask, method |-> request.method, params |-> request.params]

\* compute_outliers: the new outlier_state and the stats, or the error
\* a detection that records its method before the mask is computed
compute_outliers_marked(session, dataframe, request, forest) ==
    [ok |-> FALSE, err |-> _compute_mask(dataframe, request, forest).err,
     session |-> [session EXCEPT !.outlier_state = [method |-> request.method]],
     mask_stats |-> [total_rows |-> 0, outlier_rows |-> 0, kept_rows |-> 0]]

compute_outliers(session, dataframe, request, forest) ==
    LET computed == _compute_mask(dataframe, request, forest)
    IN  IF ~computed.ok
        THEN [ok |-> FALSE, err |-> computed.err, session |-> session,
              mask_stats |-> [total_rows |-> 0, outlier_rows |-> 0, kept_rows |-> 0]]
        ELSE [ok |-> TRUE, err |-> "",
              session |-> [session EXCEPT
                              !.outlier_state = outlier_state_of(computed.mask, request)],
              mask_stats |-> [total_rows |-> Len(dataframe.rows),
                              outlier_rows |-> CountOf(computed.mask, FALSE),
                              kept_rows |-> CountOf(computed.mask, TRUE)]]

\* session.outlier_state.clear(), and a clear that leaves the state in place
outlier_state_kept(state) == state

outlier_state_clear(state) == EmptyFn

\* the clipped values are whole numbers, as every cell of the model is
WinsorizeExact(dataframe, k) ==
    \A c \in DOMAIN dataframe.columns : \A i \in 1..Len(dataframe.rows) :
        LET series == ColumnValues(dataframe, dataframe.columns[c])
            b      == IqrBounds(series, k)
        IN  /\ series[i] * b.scale < b.lower => b.lower % b.scale = 0
            /\ series[i] * b.scale > b.upper => b.upper % b.scale = 0

\* numeric.clip(lower, upper, axis=1) written back into the frame
Winsorized(dataframe, k) ==
    [dataframe EXCEPT !.rows =
        [i \in 1..Len(dataframe.rows) |->
            [c \in 1..Len(dataframe.columns) |->
                LET series == ColumnValues(dataframe, dataframe.columns[c])
                    b      == IqrBounds(series, k)
                IN  IF series[i] * b.scale < b.lower THEN b.lower \div b.scale
                    ELSE IF series[i] * b.scale > b.upper THEN b.upper \div b.scale
                    ELSE series[i]]]]

ApplyOut(status, rows, masked_rows, unmasked_rows) ==
    [status |-> status, rows |-> rows, masked_rows |-> masked_rows,
     unmasked_rows |-> unmasked_rows]

ApplyFailed(session, dataframe, err) ==
    [ok |-> FALSE, err |-> err, session |-> session, dataframe |-> dataframe,
     out |-> ApplyOut("", 0, 0, 0)]

\* apply_outliers: the session and its frame afterwards with the value
\* returned, or the error
apply_outliers(session, dataframe, request) ==
    IF request.action = "reset"
    THEN [ok |-> TRUE, err |-> "",
          session |-> [session EXCEPT
                          !.outlier_state = outlier_state_clear(session.outlier_state)],
          dataframe |-> dataframe,
          out |-> ApplyOut("reset", Len(dataframe.rows), 0, 0)]
    ELSE IF DOMAIN session.outlier_state = {} \/ "mask" \notin DOMAIN session.outlier_state
    THEN ApplyFailed(session, dataframe, "Outlier mask has not been computed")
    ELSE LET mask_array == session.outlier_state.mask
         IN  CASE request.action = "mask" ->
                    [ok |-> TRUE, err |-> "", session |-> session, dataframe |-> dataframe,
                     out |-> ApplyOut("mask", 0, CountOf(mask_array, FALSE),
                                      CountOf(mask_array, TRUE))]
               [] request.action = "drop" ->
                    \* a boolean indexer of another length raises IndexError
                    IF Len(mask_array) # Len(dataframe.rows)
                    THEN ApplyFailed(session, dataframe, "Boolean index has wrong length")
                    ELSE LET kept == KeepRows(dataframe,
                                         {i \in DOMAIN mask_array : mask_array[i]})
                         IN  [ok |-> TRUE, err |-> "", session |-> session,
                              dataframe |-> kept,
                              out |-> ApplyOut("drop", Len(kept.rows), 0, 0)]
               [] request.action = "winsorize" ->
                    LET capped == IF ~dataframe.numeric \/ Len(dataframe.rows) = 0
                                  THEN dataframe
                                  ELSE Winsorized(dataframe,
                                                  OrDefault(request.params.k,
                                                            Fraction(3, 2)))
                    IN  [ok |-> TRUE, err |-> "", session |-> session,
                         dataframe |-> capped,
                         out |-> ApplyOut("winsorize", Len(capped.rows), 0, 0)]
               [] OTHER -> ApplyFailed(session, dataframe, "Unsupported action")

\* run_outlier_compute
RunOutlierCompute(sid, request, forest) ==
    LET g == SessionStore_get(items, sid, now)
    IN  /\ heap' = Collect(heap, g.items, callerDf)
        /\ live' = IF g.ok THEN Fetched(live, sid, now) ELSE live
        /\ IF ~g.ok
           THEN /\ items' = g.items
                /\ ret' = RetOut("outlier_compute", FALSE, sid,
                                 "Session expired or not found", request, <<>>)
                /\ UNCHANGED detected
           ELSE /\ request.method = "iforest"
                   => Len(forest) = Len(heap[g.items[sid].dataframe].rows)
                /\ request.method # "iforest" => forest = <<>>
                /\ LET c == compute_outliers(g.items[sid], heap[g.items[sid].dataframe],
                                             request, forest)
                   IN  /\ items' = [g.items EXCEPT ![sid] = c.session]
                       /\ detected' = IF c.ok THEN Put(detected, sid, c.mask_stats)
                                      ELSE detected
                       /\ ret' = RetOut("outlier_compute", c.ok, sid, c.err, request,
                                        c.mask_stats)
        /\ UNCHANGED <<now, run_index, max_sessions, settings, callerDf,
                       nextSession, nextRun, trained, preprocessed>>

\* run_outlier_apply.  The frame `drop` assigns to the session takes the
\* place of the one the session held, which nothing else refers to.
RunOutlierApply(sid, request) ==
    LET g == SessionStore_get(items, sid, now)
    IN  /\ live' = IF g.ok THEN Fetched(live, sid, now) ELSE live
        /\ IF ~g.ok
           THEN /\ items' = g.items
                /\ heap' = Collect(heap, g.items, callerDf)
                /\ ret' = RetOut("outlier_apply", FALSE, sid,
                                 "Session expired or not found", request, <<>>)
                /\ UNCHANGED detected
           ELSE /\ request.action = "winsorize"
                   => IF \/ ~heap[g.items[sid].dataframe].numeric
                         \/ Len(heap[g.items[sid].dataframe].rows) = 0
                      THEN TRUE
                      ELSE WinsorizeExact(heap[g.items[sid].dataframe],
                                          OrDefault(request.params.k, Fraction(3, 2)))
                /\ LET a == apply_outliers(g.items[sid], heap[g.items[sid].dataframe],
                                           request)
                   IN  /\ items' = [g.items EXCEPT ![sid] = a.session]
                       /\ heap' = [Collect(heap, g.items, callerDf) EXCEPT
                                      ![g.items[sid].dataframe] = a.dataframe]
                       /\ detected' = IF a.ok /\ request.action = "reset"
                                      THEN Restrict(detected, DOMAIN detected \ {sid})
                                      ELSE detected
                       /\ ret' = RetOut("outlier_apply", a.ok, sid, a.err, request, a.out)
        /\ UNCHANGED <<now, run_index, max_sessions, settings, callerDf,
                       nextSession, nextRun, trained, preprocessed>>

(***************************************************************************)
(* The task detected for a target: preprocess.py : _target_task as called  *)
(* by fit_preprocess, core/__init__.py : _is_classification as called by   *)
(* train_model.                                                            *)
(***************************************************************************)
\* a numeric target of `rows` values, `classes` of them distinct
TargetSeries(rows, classes) == [i \in 1..rows |-> IF i <= classes THEN i ELSE 1]

\* task = "classification" if _is_classification(y) else "regression"
TrainerTask(y) == IF _is_classification(y) THEN "classification" ELSE "regression"

DetectTask(rows, classes) ==
    /\ ret' = RetOut("detect_task", TRUE, 0, "", [rows |-> rows, classes |-> classes],
                     [preprocess |-> _target_task(TRUE, TargetSeries(rows, classes)),
                      trainer |-> TrainerTask(TargetSeries(rows, classes))])
    /\ UNCHANGED <<backendVars, coreVars, coreHist, backendHist, threadVars>>

(***************************************************************************)
(* core/__init__.py under concurrent requests.  Each DatasetStore method   *)
(* runs under DatasetStore._lock and is one step; what a call does between  *)
(* two of them is on its own locals.  The caches _LATEST_RESULTS and        *)
(* _BATCH_PREDICTIONS are written with no lock, one statement a step.       *)
(***************************************************************************)
\* what a call answered, the statement it ended at and the thread it ran on
RetAt(op, ok, id, err, at, t) ==
    [op |-> op, ok |-> ok, id |-> id, err |-> err, summary |-> NoSummary, n |-> 0,
     args |-> <<>>, out |-> <<>>, at |-> at, thread |-> t]

\* the threads inside a call on the dataset
InFlight(token) == {t \in ThreadIds : threads[t].pc # "idle" /\ threads[t].token = token}

\* get_dataset at the head of a call: the copy the call works on, which takes
\* the place of the empty frame in the locals `entered`, or the error
EnterWithDataset(t, op, token, entered) ==
    LET got == DatasetStore_get(store, token)
    IN  /\ threads[t].pc = "idle"
        /\ store' = got.items
        /\ access' = IF got.ok THEN Accessed(access, token) ELSE access
        /\ evicted' = {}
        /\ IF got.ok
           THEN /\ threads' = [threads EXCEPT ![t] = [entered EXCEPT !.df = got.df]]
                /\ ret' = ret
           ELSE /\ threads' = threads
                /\ ret' = RetAt(op, FALSE, token,
                                "Dataset reference expired. Upload again.",
                                "get_dataset", t)
        /\ UNCHANGED <<latest_results, batch_predictions, nextToken, coreHist,
                       locks, dropped, complete>>

\* a call that ends on its locals, with an error
LeaveWith(t, op, err, at) ==
    /\ threads' = [threads EXCEPT ![t] = Idle]
    /\ ret' = RetAt(op, FALSE, threads[t].token, err, at, t)
    /\ evicted' = {}
    /\ UNCHANGED <<store, access, latest_results, batch_predictions, nextToken,
                   coreHist, locks, dropped, complete>>

\* _STORE.update at the end of filter_rows and remove_outliers
LeaveWithUpdate(t, op) ==
    LET updated == DatasetStore_update(store, threads[t].token, threads[t].df)
    IN  /\ store' = updated.items
        /\ access' = IF updated.ok THEN Accessed(access, threads[t].token) ELSE access
        /\ evicted' = {}
        /\ threads' = [threads EXCEPT ![t] = Idle]
        /\ ret' = RetAt(op, updated.ok, threads[t].token,
                        IF updated.ok THEN ""
                        ELSE "Dataset reference expired. Upload again.", "update", t)
        /\ UNCHANGED <<latest_results, batch_predictions, nextToken, coreHist,
                       locks, dropped, complete>>

\* filter_rows: df = get_dataset(dataset_id)
FilterRowsGet(t, token, rules) ==
    EnterWithDataset(t, "filter_rows", token,
                     [pc |-> "filter_rows", token |-> token, df |-> EmptyFrame,
                      rules |-> rules])

\* filter_rows: the mask and the filtered frame
FilterRowsMask(t) ==
    /\ threads[t].pc = "filter_rows"
    /\ LET df == threads[t].df
           rules == threads[t].rules
       IN  IF rules = <<>>
           THEN LeaveWith(t, "filter_rows", "Provide at least one filter rule", "rules")
           ELSE IF BadRule(df, rules) # 0
           THEN LeaveWith(t, "filter_rows",
                          IF rules[BadRule(df, rules)].column \notin Range(df.columns)
                          THEN "Column not found in dataset"
                          ELSE "Unsupported operator", "rules")
           ELSE IF IsEmpty(KeepRows(df, FilterMask(df, rules)))
           THEN LeaveWith(t, "filter_rows",
                          "Filters removed all rows. Adjust the criteria.", "rules")
           ELSE /\ threads' = [threads EXCEPT ![t] =
                                  [pc |-> "filter_update", token |-> threads[t].token,
                                   df |-> KeepRows(df, FilterMask(df, rules))]]
                /\ UNCHANGED <<coreVars, coreHist, locks, dropped, complete, ret>>

\* filter_rows: _STORE.update(dataset_id, filtered)
FilterRowsUpdate(t) ==
    /\ threads[t].pc = "filter_update"
    /\ LeaveWithUpdate(t, "filter_rows")

\* remove_outliers: df = get_dataset(dataset_id)
RemoveOutliersGet(t, token, columns, threshold) ==
    EnterWithDataset(t, "remove_outliers", token,
                     [pc |-> "remove_detect", token |-> token, df |-> EmptyFrame,
                      columns |-> columns, threshold |-> threshold])

\* remove_outliers: detect_outliers, which fetches the dataset again, and the
\* cleaned frame
RemoveOutliersDetect(t) ==
    /\ threads[t].pc = "remove_detect"
    /\ LET again == DatasetStore_get(store, threads[t].token)
           report == detect_outliers(again.df, threads[t].columns, threads[t].threshold)
           df == threads[t].df
       IN  /\ store' = again.items
           /\ access' = IF again.ok THEN Accessed(access, threads[t].token) ELSE access
           /\ evicted' = {}
           /\ IF ~again.ok
              THEN /\ threads' = [threads EXCEPT ![t] = Idle]
                   /\ ret' = RetAt("remove_outliers", FALSE, threads[t].token,
                                   "Dataset reference expired. Upload again.",
                                   "detect_outliers", t)
              ELSE IF ~report.ok
              THEN /\ threads' = [threads EXCEPT ![t] = Idle]
                   /\ ret' = RetAt("remove_outliers", FALSE, threads[t].token,
                                   report.err, "detect_outliers", t)
              ELSE /\ threads' = [threads EXCEPT ![t] =
                          [pc |-> "remove_update", token |-> threads[t].token,
                           df |-> KeepRows(df, (1..Len(df.rows))
                                       \ OutlierRows(df, report.inspected_columns,
                                                     threads[t].threshold))]]
                   /\ ret' = ret
           /\ UNCHANGED <<latest_results, batch_predictions, nextToken, coreHist,
                          locks, dropped, complete>>

\* remove_outliers: _STORE.update(dataset_id, cleaned)
RemoveOutliersUpdate(t) ==
    /\ threads[t].pc = "remove_update"
    /\ LeaveWithUpdate(t, "remove_outliers")

\* train_on_dataset: df = get_dataset(dataset_id)
TrainOnDatasetGet(t, token, target, algorithm, hyperparameters, fitted) ==
    EnterWithDataset(t, "train_on_dataset", token,
                     [pc |-> "train_store", token |-> token, df |-> EmptyFrame,
                      target |-> target, algorithm |-> algorithm,
                      hyperparameters |-> hyperparameters, fitted |-> fitted])

\* train_on_dataset: train_model on the copy; it raised, or
\* _LATEST_RESULTS[dataset_id] = result and the trim
TrainOnDatasetStore(t) ==
    /\ threads[t].pc = "train_store"
    /\ LET trained_model == train_model(threads[t].df, threads[t].target,
                                        threads[t].algorithm,
                                        threads[t].hyperparameters, threads[t].fitted)
           token == threads[t].token
       IN  IF ~trained_model.ok
           THEN LeaveWith(t, "train_on_dataset", trained_model.err, "train_model")
           ELSE /\ latest_results' =
                       OD_Trim(OD_Set(latest_results, token, trained_model.result),
                               max_items)
                /\ lastTrain' = Put(lastTrain, token, trained_model.result)
                /\ threads' = [threads EXCEPT ![t] = Idle]
                /\ ret' = RetAt("train_on_dataset", TRUE, token, "", "store", t)
                /\ evicted' = {}
                /\ UNCHANGED <<store, access, batch_predictions, nextToken, lastBatch,
                               locks, dropped, complete>>

\* predict_batch up to the batch result: result = latest_result(dataset_id)
\* and the predictions
PredictBatchRead(t, token, data) ==
    LET answer == predict_batch(latest_results, token, data)
    IN  /\ threads[t].pc = "idle"
        /\ IF answer.ok
           THEN /\ threads' = [threads EXCEPT ![t] =
                                  [pc |-> "batch_store", token |-> token,
                                   batch |-> answer.batch]]
                /\ ret' = ret
           ELSE /\ threads' = threads
                /\ ret' = RetAt("predict_batch", FALSE, token, answer.err,
                                "latest_result", t)
        /\ evicted' = {}
        /\ UNCHANGED <<store, access, latest_results, batch_predictions, nextToken,
                       coreHist, locks, dropped, complete>>

\* predict_batch: _BATCH_PREDICTIONS[dataset_id] = batch_result and the trim
PredictBatchStore(t) ==
    /\ threads[t].pc = "batch_store"
    /\ batch_predictions' =
           OD_Trim(OD_Set(batch_predictions, threads[t].token, threads[t].batch),
                   max_items)
    /\ lastBatch' = Put(lastBatch, threads[t].token, threads[t].batch.csv_bytes)
    /\ threads' = [threads EXCEPT ![t] = Idle]
    /\ ret' = RetAt("predict_batch", TRUE, threads[t].token, "", "store", t)
    /\ evicted' = {}
    /\ UNCHANGED <<store, access, latest_results, nextToken, lastTrain,
                   locks, dropped, complete>>

\* drop_dataset: _STORE.remove(dataset_id)
DropDatasetRemove(t, token) ==
    /\ threads[t].pc = "idle"
    /\ store' = DatasetStore_remove(store, token)
    /\ access' = SelectSeq(access, LAMBDA k : k # token)
    /\ threads' = [threads EXCEPT ![t] = [pc |-> "drop_results", token |-> token]]
    /\ evicted' = {}
    /\ UNCHANGED <<latest_results, batch_predictions, nextToken, coreHist,
                   locks, dropped, complete, ret>>

\* drop_dataset: _LATEST_RESULTS.pop(dataset_id, None)
DropDatasetResults(t) ==
    /\ threads[t].pc = "drop_results"
    /\ latest_results' = OD_Pop(latest_results, threads[t].token)
    /\ lastTrain' = Restrict(lastTrain, DOMAIN lastTrain \ {threads[t].token})
    /\ threads' = [threads EXCEPT ![t].pc = "drop_batch"]
    /\ evicted' = {}
    /\ UNCHANGED <<store, access, batch_predictions, nextToken, lastBatch,
                   locks, dropped, complete, ret>>

\* drop_dataset: _BATCH_PREDICTIONS.pop(dataset_id, None), and the return
DropDatasetBatch(t) ==
    /\ threads[t].pc = "drop_batch"
    /\ batch_predictions' = OD_Pop(batch_predictions, threads[t].token)
    /\ lastBatch' = Restrict(lastBatch, DOMAIN lastBatch \ {threads[t].token})
    /\ threads' = [threads EXCEPT ![t] = Idle]
    /\ dropped' = dropped \cup {threads[t].token}
    /\ ret' = RetAt("drop_dataset", TRUE, threads[t].token, "", "return", t)
    /\ evicted' = {}
    /\ UNCHANGED <<store, access, latest_results, nextToken, lastTrain,
                   locks, complete>>

(***************************************************************************)
(* backend/outliers.py : apply_outliers under concurrent requests.  The    *)
(* session and its frame are shared objects and no lock guards them: drop  *)
(* builds a new frame and assigns it to session.dataframe; winsorize takes  *)
(* a copy of the numeric columns, clips it, writes it back into the shared  *)
(* frame and assigns that frame.  The write                                 *)
(* dataframe.loc[:, capped.columns] = capped of float values into a frame   *)
(* read from CSV sets the columns one after the other, and another thread   *)
(* can run between two of them.                                             *)
(***************************************************************************)
AllIdle == \A t \in ThreadIds : threads[t].pc = "idle"

\* the frame objects the threads hold in a local
HeldObjs(except) ==
    {threads[t].obj : t \in {u \in ThreadIds \ {except} :
                                threads[u].pc \in {"winsorize_write", "winsorize_assign"}}}

\* objects referenced by no session and no thread are dropped from the heap
CollectHeld(h, its, except) ==
    Restrict(h, DOMAIN h \cap ({its[s].dataframe : s \in DOMAIN its}
                                   \cup {callerDf} \cup HeldObjs(except)))

\* the object a frame built by a request thread is allocated at
FreshObj(h) ==
    CHOOSE o \in (2 * MaxSessionIds + 1)..(2 * MaxSessionIds + MaxThreads + 2) :
        o \notin DOMAIN h

\* the mutating calls followed per session, and the sessions uploaded
MaxMutations == 2

MaxMutateSessions == 1

\* the session has room for another mutating call
MayMutate(sid) == sid \in DOMAIN complete => Cardinality(complete[sid]) <= MaxMutations

\* a mutating call computed the frame it is going to leave in the session
Completed(sid, frame) ==
    Put(complete, sid, (IF sid \in DOMAIN complete THEN complete[sid] ELSE {}) \cup {frame})

\* an upload while no mutating call is in flight
LoadWhileIdle(data) ==
    /\ AllIdle
    /\ nextSession <= MaxMutateSessions
    /\ DatasetLoadFromBytes(data)
    /\ complete' = IF ret'.ok THEN Put(complete, ret'.id, {load_csv_bytes(data).df})
                   ELSE complete
    /\ UNCHANGED <<threads, locks, dropped>>

\* an outlier detection while no mutating call is in flight
ComputeWhileIdle(sid, request) ==
    /\ AllIdle
    /\ RunOutlierCompute(sid, request, <<>>)
    /\ UNCHANGED threadVars

\* a mutating call that ends before it wrote anything
ApplyLeaves(t, sid, its, err) ==
    /\ items' = its
    /\ ret' = RetAt("outlier_apply", FALSE, sid, err, "apply_outliers", t)
    /\ UNCHANGED <<heap, threads, complete>>

\* run_outlier_apply with action "drop", up to kept = dataframe.loc[mask_array]
OutlierDropRead(t, sid) ==
    LET g == SessionStore_get(items, sid, now)
    IN  /\ threads[t].pc = "idle"
        /\ MayMutate(sid)
        /\ IF ~g.ok THEN ApplyLeaves(t, sid, g.items, "Session expired or not found")
           ELSE IF "mask" \notin DOMAIN g.items[sid].outlier_state
           THEN ApplyLeaves(t, sid, g.items, "Outlier mask has not been computed")
           ELSE LET mask_array == g.items[sid].outlier_state.mask
                    dataframe == heap[g.items[sid].dataframe]
                IN  IF Len(mask_array) # Len(dataframe.rows)
                    THEN ApplyLeaves(t, sid, g.items, "Boolean index has wrong length")
                    ELSE LET kept == KeepRows(dataframe,
                                              {i \in DOMAIN mask_array : mask_array[i]})
                         IN  /\ items' = g.items
                             /\ threads' = [threads EXCEPT ![t] =
                                               [pc |-> "drop_assign", sid |-> sid,
                                                kept |-> kept]]
                             /\ complete' = Completed(sid, kept)
                             /\ UNCHANGED <<heap, ret>>
        /\ UNCHANGED <<now, run_index, max_sessions, settings, callerDf, nextSession,
                       nextRun, live, trained, coreVars, coreHist, backendHist,
                       locks, dropped>>

\* drop: session.dataframe = kept
OutlierDropAssign(t) ==
    LET sid == threads[t].sid
        obj == FreshObj(heap)
    IN  /\ threads[t].pc = "drop_assign"
        /\ sid \in DOMAIN items
        /\ items' = [items EXCEPT ![sid].dataframe = obj]
        /\ heap' = CollectHeld(Put(heap, obj, threads[t].kept), items', t)
        /\ threads' = [threads EXCEPT ![t] = Idle]
        /\ ret' = RetAt("outlier_apply", TRUE, sid, "", "drop", t)
        /\ UNCHANGED <<now, run_index, max_sessions, settings, callerDf, nextSession,
                       nextRun, live, trained, coreVars, coreHist, backendHist,
                       locks, dropped, complete>>

\* run_outlier_apply with action "winsorize", up to the clipped copy of the
\* numeric columns
WinsorizeRead(t, sid, k) ==
    LET g == SessionStore_get(items, sid, now)
    IN  /\ threads[t].pc = "idle"
        /\ MayMutate(sid)
        /\ IF ~g.ok THEN ApplyLeaves(t, sid, g.items, "Session expired or not found")
           ELSE IF "mask" \notin DOMAIN g.items[sid].outlier_state
           THEN ApplyLeaves(t, sid, g.items, "Outlier mask has not been computed")
           ELSE LET obj == g.items[sid].dataframe
                IN  /\ WinsorizeExact(heap[obj], k)
                    /\ items' = g.items
                    /\ threads' = [threads EXCEPT ![t] =
                                      [pc |-> "winsorize_write", sid |-> sid, obj |-> obj,
                                       capped |-> Winsorized(heap[obj], k), column |-> 1]]
                    /\ complete' = Completed(sid, Winsorized(heap[obj], k))
                    /\ UNCHANGED <<heap, ret>>
        /\ UNCHANGED <<now, run_index, max_sessions, settings, callerDf, nextSession,
                       nextRun, live, trained, coreVars, coreHist, backendHist,
                       locks, dropped>>

\* the frame with one column taken from `capped`
WithColumn(dataframe, capped, c) ==
    [dataframe EXCEPT !.rows =
        [i \in 1..Len(dataframe.rows) |->
            [dataframe.rows[i] EXCEPT ![c] = capped.rows[i][c]]]]

\* winsorize: dataframe.loc[:, capped.columns] = capped, one column
WinsorizeWrite(t) ==
    LET obj == threads[t].obj
    IN  /\ threads[t].pc = "winsorize_write"
        /\ heap' = [heap EXCEPT ![obj] = WithColumn(@, threads[t].capped,
                                                    threads[t].column)]
        /\ threads' = [threads EXCEPT ![t] =
                          IF threads[t].column < Len(heap[obj].columns)
                          THEN [@ EXCEPT !.column = @ + 1]
                          ELSE [@ EXCEPT !.pc = "winsorize_assign"]]
        /\ UNCHANGED <<now, items, run_index, max_sessions, settings, callerDf,
                       nextSession, nextRun, live, trained, coreVars, coreHist,
                       backendHist, locks, dropped, complete, ret>>

\* winsorize: session.dataframe = dataframe
WinsorizeAssign(t) ==
    LET sid == threads[t].sid
    IN  /\ threads[t].pc = "winsorize_assign"
        /\ sid \in DOMAIN items
        /\ items' = [items EXCEPT ![sid].dataframe = threads[t].obj]
        /\ heap' = CollectHeld(heap, items', t)
        /\ threads' = [threads EXCEPT ![t] = Idle]
        /\ ret' = RetAt("outlier_apply", TRUE, sid, "", "winsorize", t)
        /\ UNCHANGED <<now, run_index, max_sessions, settings, callerDf, nextSession,
                       nextRun, live, trained, coreVars, coreHist, backendHist,
                       locks, dropped, complete>>

(***************************************************************************)
(* The stores statement by statement, with their mutexes.  A `with         *)
(* self._lock:` block is entered by a step that takes the free mutex and   *)
(* left by the last step of the block; what the code does outside such a   *)
(* block changes no mutex.                                                 *)
(***************************************************************************)
Acquire(lock, t) == [locks EXCEPT ![lock] = t]

Release(lock) == [locks EXCEPT ![lock] = 0]

\* the threads that are at a dataframe.copy()
Copying == {t \in ThreadIds : threads[t].pc \in {"create_copy", "get_copy"}}

\* SessionStore.create: session_id = uuid4().hex and `with self._lock:`
CreateAcquire(t, data) ==
    /\ threads[t].pc = "idle"
    /\ load_csv_bytes(data).ok
    /\ nextSession <= MaxSessionIds
    /\ locks.session = 0
    /\ locks' = Acquire("session", t)
    /\ threads' = [threads EXCEPT ![t] =
                      [pc |-> "create_copy", sid |-> nextSession,
                       dataframe |-> load_csv_bytes(data).df]]
    /\ nextSession' = nextSession + 1
    /\ UNCHANGED <<now, items, heap, run_index, max_sessions, settings, callerDf,
                   nextRun, live, trained, coreVars, coreHist, backendHist,
                   dropped, complete, ret>>

\* SessionStore.create: self._purge_locked() and
\* SessionData(dataframe=dataframe.copy(), ...)
CreateCopy(t) ==
    /\ threads[t].pc = "create_copy"
    /\ items' = _purge_locked(items, now)
    /\ heap' = Put(heap, NewObj(threads[t].sid), threads[t].dataframe)
    /\ threads' = [threads EXCEPT ![t].pc = "create_insert"]
    /\ UNCHANGED <<now, run_index, max_sessions, settings, callerDf, nextSession,
                   nextRun, live, trained, coreVars, coreHist, backendHist,
                   locks, dropped, complete, ret>>

\* SessionStore.create: self._items[session_id] = data, and the block ends
CreateInsert(t) ==
    LET sid == threads[t].sid
    IN  /\ threads[t].pc = "create_insert"
        /\ items' = Put(items, sid, SessionData(NewObj(sid), sid, now))
        /\ live' = Fetched(live, sid, now)
        /\ locks' = Release("session")
        /\ threads' = [threads EXCEPT ![t] = Idle]
        /\ ret' = RetAt("create", TRUE, sid, "", "return", t)
        /\ UNCHANGED <<now, heap, run_index, max_sessions, settings, callerDf,
                       nextSession, nextRun, trained, coreVars, coreHist, backendHist,
                       dropped, complete>>

\* SessionStore.delete: `with self._lock:`
DeleteAcquire(t, sid) ==
    /\ threads[t].pc = "idle"
    /\ locks.session = 0
    /\ locks' = Acquire("session", t)
    /\ threads' = [threads EXCEPT ![t] = [pc |-> "delete_pop", sid |-> sid]]
    /\ UNCHANGED <<backendVars, coreVars, coreHist, backendHist, dropped, complete, ret>>

\* SessionStore.delete: the session and its runs leave the map and the run
\* index, and the block ends
DeletePop(t) ==
    LET out == SessionStore_delete(items, run_index, threads[t].sid)
    IN  /\ threads[t].pc = "delete_pop"
        /\ items' = out.items
        /\ run_index' = out.run_index
        /\ heap' = Collect(heap, out.items, callerDf)
        /\ live' = Dropped(live, {threads[t].sid})
        /\ locks' = Release("session")
        /\ threads' = [threads EXCEPT ![t] = Idle]
        /\ ret' = RetAt("delete", TRUE, threads[t].sid, "", "return", t)
        /\ UNCHANGED <<now, max_sessions, settings, callerDf, nextSession, nextRun,
                       trained, coreVars, coreHist, backendHist, dropped, complete>>

\* run_train up to store_run: get_session, whose SessionStore.get is one
\* block under the mutex, and run_id = uuid4().hex
TrainGetSession(t, sid) ==
    LET g == SessionStore_get(items, sid, now)
    IN  /\ threads[t].pc = "idle"
        /\ locks.session = 0
        /\ nextRun <= MaxRunIds
        /\ items' = g.items
        /\ IF g.ok
           THEN /\ threads' = [threads EXCEPT ![t] =
                                  [pc |-> "store_run_runs", sid |-> sid,
                                   run_id |-> nextRun]]
                /\ nextRun' = nextRun + 1
                /\ live' = Fetched(live, sid, now)
                /\ ret' = ret
           ELSE /\ ret' = RetAt("train", FALSE, sid, "Session expired or not found",
                                "get_session", t)
                /\ UNCHANGED <<threads, nextRun, live>>
        /\ heap' = Collect(heap, g.items, callerDf)
        /\ UNCHANGED <<now, run_index, max_sessions, settings, callerDf, nextSession,
                       trained, coreVars, coreHist, backendHist, locks, dropped,
                       complete>>

\* store_run: session.runs[run_id] = dict(payload), on the session object the
\* thread holds, which a delete may have taken out of the map
StoreRunRuns(t) ==
    LET sid == threads[t].sid
    IN  /\ threads[t].pc = "store_run_runs"
        /\ items' = IF sid \in DOMAIN items
                    THEN store_run_unindexed(items, run_index, sid, threads[t].run_id,
                                             [run_id |-> threads[t].run_id,
                                              model_summary |-> NoSummary]).items
                    ELSE items
        /\ threads' = [threads EXCEPT ![t].pc = "store_run_index"]
        /\ UNCHANGED <<now, heap, run_index, max_sessions, settings, callerDf,
                       nextSession, nextRun, live, trained, coreVars, coreHist,
                       backendHist, locks, dropped, complete, ret>>

\* store_run: _RUN_INDEX[run_id] = session.session_id
StoreRunIndex(t) ==
    /\ threads[t].pc = "store_run_index"
    /\ run_index' = Put(run_index, threads[t].run_id, threads[t].sid)
    /\ threads' = [threads EXCEPT ![t] = Idle]
    /\ ret' = RetAt("train", TRUE, threads[t].sid, "", "store_run", t)
    /\ UNCHANGED <<now, items, heap, max_sessions, settings, callerDf, nextSession,
                   nextRun, live, trained, coreVars, coreHist, backendHist, locks,
                   dropped, complete>>

\* register_dataset, whose DatasetStore.add is one block under the mutex
RegisterUnderLock(data) ==
    /\ locks.dataset = 0
    /\ nextToken <= MaxRaceTokens
    /\ RegisterDataset(data)
    /\ UNCHANGED <<backendVars, backendHist, coreHist, threadVars>>

\* DatasetStore.get: `with self._lock:`
GetAcquire(t, token) ==
    /\ threads[t].pc = "idle"
    /\ locks.dataset = 0
    /\ locks' = Acquire("dataset", t)
    /\ threads' = [threads EXCEPT ![t] = [pc |-> "get_lookup", token |-> token]]
    /\ UNCHANGED <<backendVars, coreVars, coreHist, backendHist, dropped, complete, ret>>

\* DatasetStore.get: df = self._items[token], which raises out of the block
\* for a token that is not stored, and move_to_end
GetLookup(t) ==
    LET got == DatasetStore_get(store, threads[t].token)
    IN  /\ threads[t].pc = "get_lookup"
        /\ store' = got.items
        /\ access' = IF got.ok THEN Accessed(access, threads[t].token) ELSE access
        /\ evicted' = {}
        /\ IF got.ok
           THEN /\ threads' = [threads EXCEPT ![t].pc = "get_copy"]
                /\ UNCHANGED <<locks, ret>>
           ELSE /\ threads' = [threads EXCEPT ![t] = Idle]
                /\ locks' = Release("dataset")
                /\ ret' = RetAt("get_dataset", FALSE, threads[t].token,
                                "Dataset reference expired. Upload again.", "get", t)
        /\ UNCHANGED <<backendVars, latest_results, batch_predictions, nextToken,
                       coreHist, backendHist, dropped, complete>>

\* DatasetStore.get: return df.copy(), and the block ends
GetCopy(t) ==
    /\ threads[t].pc = "get_copy"
    /\ locks' = Release("dataset")
    /\ threads' = [threads EXCEPT ![t] = Idle]
    /\ ret' = [RetAt("get_dataset", TRUE, threads[t].token, "", "return", t)
                  EXCEPT !.n = Len(OD_Get(store, threads[t].token).rows)]
    /\ evicted' = {}
    /\ UNCHANGED <<backendVars, store, latest_results, batch_predictions, nextToken,
                   access, coreHist, backendHist, dropped, complete>>

\* train_on_dataset: df = get_dataset(dataset_id), one block under the mutex
TrainOnDatasetGetUnderLock(t, token) ==
    /\ locks.dataset = 0
    /\ TrainOnDatasetGet(t, token, "y", "auto", <<>>, TRUE)
    /\ UNCHANGED <<backendVars, backendHist>>

(***************************************************************************)
(* The specifications                                                      *)
(***************************************************************************)
SessionIds == 1..MaxSessionIds

RunIds == 1..MaxRunIds

Init ==
    /\ now = 0
    /\ items = EmptyFn
    /\ heap = EmptyFn
    /\ run_index = EmptyFn
    /\ settings \in SettingsSet
    /\ max_sessions = 64
    /\ callerDf = 0
    /\ nextSession = 1
    /\ nextRun = 1
    /\ ret = Ret("init", TRUE, 0, "", NoSummary)
    /\ live = [s \in SessionIds |-> Gone("never")]
    /\ trained = EmptyFn
    /\ store = <<>>
    /\ latest_results = <<>>
    /\ batch_predictions = <<>>
    /\ nextToken = 1
    /\ access = <<>>
    /\ evicted = {}
    /\ lastTrain = EmptyFn
    /\ lastBatch = EmptyFn
    /\ preprocessed = {}
    /\ detected = EmptyFn
    /\ threads = [t \in ThreadIds |-> Idle]
    /\ locks = [session |-> 0, dataset |-> 0]
    /\ dropped = {}
    /\ complete = EmptyFn

\* the session store: loading, fetching, deleting, expiry
Next ==
    \/ \E d \in TickSteps : Tick(d) /\ UNCHANGED <<threadVars, coreVars, coreHist, backendHist>>
    \/ \E data \in CsvInputs : DatasetLoadFromBytes(data) /\ UNCHANGED <<threadVars, coreVars, coreHist, backendHist>>
    \/ \E sid \in SessionIds : GetSession(sid) /\ UNCHANGED <<threadVars, coreVars, coreHist, backendHist>>
    \/ \E sid \in SessionIds : ClearSession(sid) /\ UNCHANGED <<threadVars, coreVars, coreHist, backendHist>>
    \/ StoreClear /\ UNCHANGED <<threadVars, coreVars, coreHist, backendHist>>
    \/ MutateCallerFrame /\ UNCHANGED <<threadVars, coreVars, coreHist, backendHist>>

Spec == Init /\ [][Next]_vars

\* the CSV payloads and clock steps of the training specification
RunCsvInputs == {CsvSmall}

RunTickSteps == {31}

\* preprocessing, training and evaluation on the sessions of the store
RunNext ==
    \/ \E d \in RunTickSteps : Tick(d) /\ UNCHANGED <<threadVars, coreVars, coreHist, backendHist>>
    \/ \E data \in RunCsvInputs : DatasetLoadFromBytes(data) /\ UNCHANGED <<threadVars, coreVars, coreHist, backendHist>>
    \/ \E sid \in SessionIds, request \in PreprocessRequests :
          RunPreprocess(sid, request) /\ UNCHANGED <<threadVars, coreVars, coreHist, detected>>
    \/ \E sid \in SessionIds, algo \in AlgoInputs, fitted \in BOOLEAN,
          metric \in MetricValues :
          RunTrain(sid, algo, fitted, metric) /\ UNCHANGED <<threadVars, coreVars, coreHist, backendHist>>
    \/ \E run_id \in RunIds : RunEvaluate(run_id) /\ UNCHANGED <<threadVars, coreVars, coreHist, backendHist>>
    \/ \E sid \in SessionIds : ClearSession(sid) /\ UNCHANGED <<threadVars, coreVars, coreHist, backendHist>>
    \/ StoreClear /\ UNCHANGED <<threadVars, coreVars, coreHist, backendHist>>

RunSpec == Init /\ [][RunNext]_vars

\* the inputs of the core specification
CoreCsvInputs == {Malformed, CsvHeaderOnly, CsvSmall, CsvThree}

Tokens == 1..MaxTokens

ColumnChoices == {<<>>, <<"x">>, <<"nope">>}

\* thresholds 0, 1/2 and 3
Thresholds == {[num |-> 0, den |-> 1], [num |-> 1, den |-> 2], [num |-> 3, den |-> 1]}

\* the rule lists tried, numbered
FilterRuleSets ==
    << <<>>,
      <<[column |-> "x", operator |-> "gt", value |-> 0]>>,
      <<[column |-> "x", operator |-> "eq", value |-> 9]>>,
      <<[column |-> "x", operator |-> "contains", value |-> 2]>>,
      <<[column |-> "x", operator |-> "in", value |-> {0, 5}]>>,
      <<[column |-> "x", operator |-> "gte", value |-> 1],
        [column |-> "y", operator |-> "ne", value |-> 1]>>,
      <<[column |-> "x", operator |-> "lte", value |-> 2],
        [column |-> "y", operator |-> "lt", value |-> 1]>>,
      <<[column |-> "nope", operator |-> "eq", value |-> 0]>>,
      <<[column |-> "x", operator |-> "like", value |-> 0]>> >>

\* the dataset store and the operations on its datasets
CoreNext ==
    \/ \E data \in CoreCsvInputs : RegisterDataset(data) /\ UNCHANGED <<threadVars, backendVars, backendHist, coreHist>>
    \/ \E token \in Tokens : GetDataset(token) /\ UNCHANGED <<threadVars, backendVars, backendHist, coreHist>>
    \/ \E token \in Tokens : DropDataset(token) /\ UNCHANGED <<threadVars, backendVars, backendHist>>
    \/ \E token \in Tokens, columns \in ColumnChoices, threshold \in Thresholds :
          DetectOutliers(token, columns, threshold) /\ UNCHANGED <<threadVars, backendVars, backendHist, coreHist>>
    \/ \E token \in Tokens, columns \in ColumnChoices, threshold \in Thresholds :
          RemoveOutliers(token, columns, threshold) /\ UNCHANGED <<threadVars, backendVars, backendHist, coreHist>>
    \/ \E token \in Tokens, k \in DOMAIN FilterRuleSets :
          FilterRows(token, FilterRuleSets[k]) /\ UNCHANGED <<threadVars, backendVars, backendHist, coreHist>>

CoreSpec == Init /\ [][CoreNext]_vars

\* the inputs of the outlier specification
OutlierCsvInputs == {CsvOutlier}

\* k and z: both unset (0), or k = 1/2 and z = 1
OutlierParamSet ==
    {[k |-> Fraction(0, 1), z |-> Fraction(0, 1)],
     [k |-> Fraction(1, 2), z |-> Fraction(1, 1)]}

OutlierComputeRequests ==
    [method : {"iqr", "zscore"}, params : OutlierParamSet]

OutlierApplyRequests ==
    [action : {"mask", "drop", "winsorize", "reset"}, params : OutlierParamSet]

\* the session store with outlier detection and remediation
OutlierNext ==
    \/ \E data \in OutlierCsvInputs :
          DatasetLoadFromBytes(data) /\ UNCHANGED <<threadVars, coreVars, coreHist, backendHist>>
    \/ \E sid \in SessionIds, request \in OutlierComputeRequests :
          RunOutlierCompute(sid, request, <<>>) /\ UNCHANGED <<threadVars, coreVars, coreHist>>
    \/ \E sid \in SessionIds, request \in OutlierApplyRequests :
          RunOutlierApply(sid, request) /\ UNCHANGED <<threadVars, coreVars, coreHist>>

OutlierSpec == Init /\ [][OutlierNext]_vars

\* the inputs of the training specifications
TrainCsvInputs == {CsvTwoClasses}

TargetInputs == {"y", "nope"}

AlgorithmInputs == {"auto", "random_forest", "bogus"}

\* the hyperparameter mappings tried, numbered
HyperparameterInputs ==
    << <<>>,
       <<[key |-> "max_iter", value |-> "abc"]>>,
       <<[key |-> "max_iter", value |-> "250"]>>,
       <<[key |-> "max_iter", value |-> "inf"]>>,
       <<[key |-> "n_estimators", value |-> "2.5"],
         [key |-> "max_depth", value |-> ""]>>,
       <<[key |-> "penalty", value |-> "l1"],
         [key |-> "colour", value |-> "red"]>>,
       <<[key |-> "colour", value |-> "red"],
         [key |-> "max_iter", value |-> "250"]>> >>

\* training with every hyperparameter mapping
HyperNext ==
    \/ \E data \in TrainCsvInputs :
          RegisterDataset(data) /\ UNCHANGED <<threadVars, backendVars, backendHist, coreHist>>
    \/ \E token \in Tokens, algorithm \in AlgorithmInputs,
          h \in DOMAIN HyperparameterInputs, fitted \in BOOLEAN :
          TrainOnDataset(token, "y", algorithm, HyperparameterInputs[h], fitted)
          /\ UNCHANGED <<threadVars, backendVars, backendHist>>
    \/ \E token \in Tokens : LatestResult(token) /\ UNCHANGED <<threadVars, backendVars, backendHist>>

HyperSpec == Init /\ [][HyperNext]_vars

\* the hyperparameter mappings of the retention specification: the defaults
\* and max_iter = "250"
RetainedHyperparameters == {1, 3}

\* the feature mappings given to predict_single, numbered
FeatureInputs ==
    << <<[key |-> "x", value |-> Number(1)]>>,
       <<[key |-> "x", value |-> Text("2.5")]>>,
       <<[key |-> "x", value |-> Text("abc")]>>,
       <<[key |-> "x", value |-> Text("nan")]>>,
       <<[key |-> "z", value |-> Number(1)]>> >>

\* the dataset store with training and inference on its datasets
TrainNext ==
    \/ \E data \in TrainCsvInputs :
          RegisterDataset(data) /\ UNCHANGED <<threadVars, backendVars, backendHist, coreHist>>
    \/ \E token \in Tokens : DropDataset(token) /\ UNCHANGED <<threadVars, backendVars, backendHist>>
    \/ \E token \in Tokens, target \in TargetInputs, h \in RetainedHyperparameters,
          fitted \in BOOLEAN :
          TrainOnDataset(token, target, "auto", HyperparameterInputs[h], fitted)
          /\ UNCHANGED <<threadVars, backendVars, backendHist>>
    \/ \E token \in Tokens : LatestResult(token) /\ UNCHANGED <<threadVars, backendVars, backendHist>>
    \/ \E token \in Tokens, f \in DOMAIN FeatureInputs :
          PredictSingle(token, FeatureInputs[f]) /\ UNCHANGED <<threadVars, backendVars, backendHist>>

TrainSpec == Init /\ [][TrainNext]_vars

\* the CSVs given to predict_batch
BatchCsvInputs == {CsvHeaderOnly, CsvWide, CsvTwoClasses, CsvThree}

\* the dataset store with batch inference on its datasets and the export of
\* the cached batches
BatchNext ==
    \/ \E data \in TrainCsvInputs :
          RegisterDataset(data) /\ UNCHANGED <<threadVars, backendVars, backendHist, coreHist>>
    \/ \E token \in Tokens : DropDataset(token) /\ UNCHANGED <<threadVars, backendVars, backendHist>>
    \/ \E token \in Tokens, fitted \in BOOLEAN :
          TrainOnDataset(token, "y", "auto", <<>>, fitted)
          /\ UNCHANGED <<threadVars, backendVars, backendHist>>
    \/ \E token \in Tokens, data \in BatchCsvInputs :
          PredictBatch(token, data) /\ UNCHANGED <<threadVars, backendVars, backendHist>>
    \/ \E token \in Tokens :
          ExportBatchPredictionsCsv(token) /\ UNCHANGED <<threadVars, backendVars, backendHist>>

BatchSpec == Init /\ [][BatchNext]_vars

\* the row counts and numbers of distinct values of the targets whose task is
\* detected: every small target, and two where 5% of the rows exceeds 10
TaskRowInputs == (1..24) \cup {220, 240}

TaskClassInputs == 1..24

\* task detection on targets of every size
TaskNext ==
    \E rows \in TaskRowInputs, classes \in TaskClassInputs :
        classes <= rows /\ DetectTask(rows, classes)

TaskSpec == Init /\ [][TaskNext]_vars

\* the inputs of the pipeline specification: a text dataset, one with a
\* target class of a single member, and one with a far value
PipelineCsvInputs == {CsvText, CsvThree, CsvOutlier}

PipelineParams == {[k |-> Fraction(1, 2), z |-> Fraction(1, 1)]}

PipelineComputeRequests == [method : {"iqr"}, params : PipelineParams]

PipelineApplyRequests == [action : {"drop", "winsorize"}, params : PipelineParams]

PipelineAlgos == {"rf"}

PipelineMetrics == {1}

\* a session's way from loading through outlier remediation and
\* preprocessing to training
PipelineNext ==
    \/ \E data \in PipelineCsvInputs :
          DatasetLoadFromBytes(data) /\ UNCHANGED <<threadVars, coreVars, coreHist, backendHist>>
    \/ \E sid \in SessionIds, request \in PreprocessRequests :
          RunPreprocess(sid, request) /\ UNCHANGED <<threadVars, coreVars, coreHist, detected>>
    \/ \E sid \in SessionIds, request \in PipelineComputeRequests :
          RunOutlierCompute(sid, request, <<>>) /\ UNCHANGED <<threadVars, coreVars, coreHist>>
    \/ \E sid \in SessionIds, request \in PipelineApplyRequests :
          RunOutlierApply(sid, request) /\ UNCHANGED <<threadVars, coreVars, coreHist>>
    \/ \E sid \in SessionIds, algo \in PipelineAlgos, fitted \in BOOLEAN,
          metric \in PipelineMetrics :
          RunTrain(sid, algo, fitted, metric) /\ UNCHANGED <<threadVars, coreVars, coreHist, backendHist>>

PipelineSpec == Init /\ [][PipelineNext]_vars

\* the inputs of the concurrent requests on the core
RaceCsvInputs == {CsvThree}

RaceFilterRules == << <<>>, <<[column |-> "x", operator |-> "lt", value |-> 5]>> >>

\* drop_dataset, a statement a step, on a token an upload has returned
DropDatasetSteps ==
    \/ \E t \in ThreadIds, token \in 1..MaxRaceTokens :
          token < nextToken /\ DropDatasetRemove(t, token) /\ UNCHANGED <<backendVars, backendHist>>
    \/ \E t \in ThreadIds : DropDatasetResults(t) /\ UNCHANGED <<backendVars, backendHist>>
    \/ \E t \in ThreadIds : DropDatasetBatch(t) /\ UNCHANGED <<backendVars, backendHist>>

\* concurrent requests that rewrite datasets of the core, with uploads and
\* drops
RaceNext ==
    \/ \E data \in RaceCsvInputs :
          RegisterDataset(data) /\ UNCHANGED <<threadVars, backendVars, backendHist, coreHist>>
    \/ \E t \in ThreadIds, token \in 1..MaxRaceTokens, k \in DOMAIN RaceFilterRules :
          FilterRowsGet(t, token, RaceFilterRules[k]) /\ UNCHANGED <<backendVars, backendHist>>
    \/ \E t \in ThreadIds : FilterRowsMask(t) /\ UNCHANGED <<backendVars, backendHist>>
    \/ \E t \in ThreadIds : FilterRowsUpdate(t) /\ UNCHANGED <<backendVars, backendHist>>
    \/ \E t \in ThreadIds, token \in 1..MaxRaceTokens :
          RemoveOutliersGet(t, token, <<>>, Fraction(1, 1)) /\ UNCHANGED <<backendVars, backendHist>>
    \/ \E t \in ThreadIds : RemoveOutliersDetect(t) /\ UNCHANGED <<backendVars, backendHist>>
    \/ \E t \in ThreadIds : RemoveOutliersUpdate(t) /\ UNCHANGED <<backendVars, backendHist>>
    \/ DropDatasetSteps

RaceSpec == Init /\ [][RaceNext]_vars

\* concurrent trainings, batch predictions and drops
DropRaceNext ==
    \/ \E data \in RaceCsvInputs :
          nextToken <= MaxRaceTokens /\ RegisterDataset(data) /\ UNCHANGED <<threadVars, backendVars, backendHist, coreHist>>
    \/ \E t \in ThreadIds, token \in 1..MaxRaceTokens, fitted \in BOOLEAN :
          TrainOnDatasetGet(t, token, "y", "auto", <<>>, fitted) /\ UNCHANGED <<backendVars, backendHist>>
    \/ \E t \in ThreadIds : TrainOnDatasetStore(t) /\ UNCHANGED <<backendVars, backendHist>>
    \/ \E t \in ThreadIds, token \in 1..MaxRaceTokens, data \in RaceCsvInputs :
          PredictBatchRead(t, token, data) /\ UNCHANGED <<backendVars, backendHist>>
    \/ \E t \in ThreadIds : PredictBatchStore(t) /\ UNCHANGED <<backendVars, backendHist>>
    \/ DropDatasetSteps

DropRaceSpec == Init /\ [][DropRaceNext]_vars

\* the inputs of the concurrent mutations of a session
MutateCsvInputs == {CsvTwin}

MutateComputeRequests == [method : {"iqr"}, params : PipelineParams]

\* the multipliers of the concurrent winsorize requests: 1/2 and 1/10
WinsorizeMultipliers == {Fraction(1, 2), Fraction(1, 10)}

\* concurrent drops and winsorizes on the sessions
MutateNext ==
    \/ \E data \in MutateCsvInputs : LoadWhileIdle(data) /\ UNCHANGED <<coreVars, coreHist, backendHist>>
    \/ \E sid \in SessionIds, request \in MutateComputeRequests :
          ComputeWhileIdle(sid, request) /\ UNCHANGED <<coreVars, coreHist>>
    \/ \E t \in ThreadIds, sid \in SessionIds : OutlierDropRead(t, sid)
    \/ \E t \in ThreadIds : OutlierDropAssign(t)
    \/ \E t \in ThreadIds, sid \in SessionIds, k \in WinsorizeMultipliers : WinsorizeRead(t, sid, k)
    \/ \E t \in ThreadIds : WinsorizeWrite(t)
    \/ \E t \in ThreadIds : WinsorizeAssign(t)

MutateSpec == Init /\ [][MutateNext]_vars

\* the upload of the statement-level specification
LockCsvInputs == {CsvTwoClasses}

\* the stores statement by statement
LockNext ==
    \/ \E t \in ThreadIds, data \in LockCsvInputs : CreateAcquire(t, data)
    \/ \E t \in ThreadIds : CreateCopy(t)
    \/ \E t \in ThreadIds : CreateInsert(t)
    \/ \E t \in ThreadIds, sid \in SessionIds : sid < nextSession /\ DeleteAcquire(t, sid)
    \/ \E t \in ThreadIds : DeletePop(t)
    \/ \E t \in ThreadIds, sid \in SessionIds : sid < nextSession /\ TrainGetSession(t, sid)
    \/ \E t \in ThreadIds : StoreRunRuns(t)
    \/ \E t \in ThreadIds : StoreRunIndex(t)
    \/ \E data \in LockCsvInputs : RegisterUnderLock(data)
    \/ \E t \in ThreadIds, token \in 1..MaxRaceTokens : token < nextToken /\ GetAcquire(t, token)
    \/ \E t \in ThreadIds : GetLookup(t)
    \/ \E t \in ThreadIds : GetCopy(t)
    \/ \E t \in ThreadIds, token \in 1..MaxRaceTokens :
          token < nextToken /\ TrainOnDatasetGetUnderLock(t, token)
    \/ \E t \in ThreadIds : TrainOnDatasetStore(t) /\ UNCHANGED <<backendVars, backendHist>>

LockSpec == Init /\ [][LockNext]_vars

(***************************************************************************)
(* Properties of the session store (Spec)                                  *)
(***************************************************************************)
\* C1: SessionStore.get(session_id) succeeds exactly when the id was created,
\* has not been deleted or cleared since, and no more than the TTL has passed
\* since its creation or latest successful fetch; in every other case (never
\* created, removed, idle for longer than the TTL at the call) it fails.
C1_GetFailsUnlessLive ==
    [][ret'.op = "get" => (ret'.ok <=> live[ret'.id].alive)]_vars

\* reached: a get of a session that had expired was refused
C1_Witness ==
    /\ ret.op = "get"
    /\ ~ret.ok
    /\ live[ret.id].gone = "expired"

\* C2: a successful get sets last_accessed to the time of the call, and the
\* purge that runs in create and get only removes sessions for which more than
\* the TTL has passed since their creation or latest successful fetch.
C2_FetchedSessionSurvives ==
    [][ /\ (ret'.op = "get" /\ ret'.ok) => items'[ret'.id].last_accessed = now'
        /\ \A s \in DOMAIN items :
              (s \notin DOMAIN items' /\ ret'.op \notin {"delete", "clear"})
                  => ~live[s].alive ]_vars

\* reached: a session older than the TTL is fetched successfully
C2_Witness ==
    /\ ret.op = "get"
    /\ ret.ok
    /\ ret.id \in DOMAIN items
    /\ now - items[ret.id].created_at > SESSION_TTL

\* C3: the number of sessions held by the store never exceeds the configured
\* maximum active-session count.
C3_SessionCountWithinCap == Cardinality(DOMAIN items) <= max_sessions

\* the sessions of the store that have not expired
ActiveSessions == {s \in DOMAIN items : live[s].alive}

\* C5: a dataset load issued while the number of active sessions equals
\* max_sessions is rejected: no session id is returned, no session is added and
\* the active sessions stay in the store.
C5_LoadRejectedAtCap ==
    [][ (ret'.op = "load"
            /\ Cardinality(ActiveSessions) = _limits_from_settings(settings).max_sessions)
        => /\ ~ret'.ok
           /\ DOMAIN items' \subseteq DOMAIN items
           /\ ActiveSessions \subseteq DOMAIN items' ]_vars

\* C6: when the caller of create changes the dataframe object it passed in, the
\* dataset held for every session stays as it was.
C6_CreateDoesNotAlias ==
    [][ ret'.op = "mutate_caller"
        => \A s \in DOMAIN items :
              /\ s \in DOMAIN items'
              /\ heap'[items'[s].dataframe] = heap[items[s].dataframe] ]_vars

\* reached: the caller changed its frame while the session created from it is
\* in the store
C6_Witness ==
    /\ ret.op = "mutate_caller"
    /\ \E s \in DOMAIN items : ArgObj(s) = callerDf

(***************************************************************************)
(* Properties of the runs (RunSpec)                                        *)
(***************************************************************************)
\* the session that run_train stored run `r` in is alive
OwnerLive(r) == r \in DOMAIN trained /\ live[trained[r].session_id].alive

\* C9: for every run id returned by a successful train whose session is alive,
\* evaluate(run_id) succeeds and returns the task, target, algorithm and
\* metrics that this train returned.
C9_EvaluateFindsRun ==
    [][ (ret'.op = "evaluate" /\ OwnerLive(ret'.id))
        => (ret'.ok /\ ret'.summary = trained[ret'.id].summary) ]_vars

\* reached: the first run of a session is evaluated after a second training
\* on the same session
C9_Witness ==
    /\ ret.op = "evaluate"
    /\ ret.ok
    /\ ret.id = 1
    /\ 2 \in DOMAIN trained
    /\ trained[2].session_id = trained[1].session_id
    /\ trained[2].summary # trained[1].summary

\* C10: every entry of the reverse run index points to a session that is in the
\* store and holds that run.
C10_IndexPointsIntoStore ==
    \A r \in DOMAIN run_index :
        /\ run_index[r] \in DOMAIN items
        /\ r \in DOMAIN items[run_index[r]].runs

(***************************************************************************)
(* Properties of the core dataset store (CoreSpec)                         *)
(***************************************************************************)
\* C4: when a creation finds the dataset store full, the datasets it evicts
\* are the least recently accessed ones (creation, every successful get and
\* every update count as an access), exactly as many as needed to get back
\* to the capacity, and never the dataset just created.
C4_EvictsLeastRecentlyAccessed ==
    [][nextToken' = nextToken + 1 =>
        LET created == nextToken
            gone    == OD_Keys(store) \ OD_Keys(store')
        IN  /\ created \in OD_Keys(store')
            /\ OD_Keys(store') \subseteq OD_Keys(store) \cup {created}
            /\ Len(store') = IF Len(store) < max_items THEN Len(store) + 1
                             ELSE max_items
            /\ \A e \in gone : \A k \in OD_Keys(store') \ {created} :
                  Position(access, e) < Position(access, k)]_vars

\* C4 witness: a creation evicted a dataset while an older-created one, which
\* had been accessed since, stayed.
C4_Witness ==
    /\ ret.op = "register"
    /\ ret.ok
    /\ evicted # {}
    /\ \E e \in evicted : \E k \in OD_Keys(store) : k < e

\* C7: no operation turns a stored dataset that has rows into one without
\* rows; an operation that would remove every row fails and leaves the
\* dataset as it was.
C7_StoredDatasetKeepsRows ==
    [][\A k \in OD_Keys(store) \cap OD_Keys(store') :
          ~IsEmpty(OD_Get(store, k)) => ~IsEmpty(OD_Get(store', k))]_vars

\* C8: a register_dataset call that fails (bad CSV, empty dataset) leaves
\* the dataset store as it was: nothing is stored.
C8_FailedRegisterStoresNothing ==
    [][(ret'.op = "register" /\ ~ret'.ok) => store' = store]_vars

(***************************************************************************)
(* Properties of training and inference on the core datasets (TrainSpec)   *)
(***************************************************************************)
\* C11: training results are retained within the capacity of the store and
\* only for datasets still in the store: once the capacity limit has evicted
\* a dataset, latest_result finds no result for it.
C11_ResultsFollowStoreEviction ==
    /\ Len(latest_results) <= max_items
    /\ \A k \in OD_Keys(latest_results) : k \in OD_Keys(store)
    /\ (ret.op = "latest_result" /\ ret.ok) => ret.id \in OD_Keys(store)

(***************************************************************************)
(* Properties of outlier detection and remediation (OutlierSpec)           *)
(***************************************************************************)
\* C12: an outlier apply with action mask, drop or winsorize on a session on
\* which no detection has succeeded since its creation or its last reset
\* fails with "Outlier mask has not been computed" and leaves the session's
\* dataset and outlier state as they were; a reset on a session of the
\* store succeeds and leaves the session without a cached mask.
C12_ApplyNeedsMask ==
    [][(ret'.op = "outlier_apply" /\ ret'.id \in DOMAIN items) =>
          LET sid == ret'.id
          IN  /\ (ret'.args.action # "reset" /\ sid \notin DOMAIN detected) =>
                    /\ ~ret'.ok
                    /\ ret'.err = "Outlier mask has not been computed"
                    /\ sid \in DOMAIN items'
                    /\ heap'[items'[sid].dataframe] = heap[items[sid].dataframe]
                    /\ items'[sid].outlier_state = items[sid].outlier_state
              /\ ret'.args.action = "reset" =>
                    /\ ret'.ok
                    /\ DOMAIN items'[sid].outlier_state = {}]_vars

\* C12 witness: a drop on a three-row session without a detection was refused.
C12_Witness ==
    /\ ret.op = "outlier_apply"
    /\ ret.args.action = "drop"
    /\ ~ret.ok
    /\ ret.err = "Outlier mask has not been computed"
    /\ ret.id \in DOMAIN items
    /\ ret.id \notin DOMAIN detected
    /\ Len(heap[items[ret.id].dataframe].rows) = 3

\* C13: an outlier drop or winsorize that changes the session's dataset
\* invalidates the cached mask: it leaves the session without a cached mask,
\* so that a later apply of mask, drop or winsorize without a new detection
\* is refused.
C13_MutationInvalidatesMask ==
    [][(/\ ret'.op = "outlier_apply"
        /\ ret'.ok
        /\ ret'.args.action \in {"drop", "winsorize"}
        /\ heap'[items'[ret'.id].dataframe] # heap[items[ret'.id].dataframe]) =>
          DOMAIN items'[ret'.id].outlier_state = {}]_vars

C15_MaskAndDropAgreeWithDetect ==
    [][(/\ ret'.op = "outlier_apply"
        /\ ret'.ok
        /\ ret'.id \in DOMAIN detected) =>
          /\ ret'.args.action = "mask" =>
                /\ ret'.out.unmasked_rows = detected[ret'.id].kept_rows
                /\ ret'.out.masked_rows = detected[ret'.id].outlier_rows
          /\ ret'.args.action = "drop" =>
                Len(heap'[items'[ret'.id].dataframe].rows)
                    = detected[ret'.id].kept_rows]_vars

\* C15 witness: a mask report of two kept rows and one outlier row, as the
\* detection had counted.
C15_Witness ==
    /\ ret.op = "outlier_apply"
    /\ ret.args.action = "mask"
    /\ ret.ok
    /\ ret.out.unmasked_rows = 2
    /\ ret.out.masked_rows = 1
    /\ ret.id \in DOMAIN detected
    /\ detected[ret.id].kept_rows = 2

\* C16: a train on a session that run_preprocess never succeeded on fails:
\* when the session is found the error is that preprocessing must be executed
\* first; no session gains a run and the reverse index gains no entry.
C16_TrainNeedsPreprocess ==
    [][(/\ ret'.op = "train"
        /\ ret'.args.session_id \notin preprocessed) =>
          /\ ~ret'.ok
          /\ ret'.args.session_id \in DOMAIN items' =>
                ret'.err = "Preprocessing must be executed before training"
          /\ \A s \in DOMAIN items' : items'[s].runs = items[s].runs
          /\ \A r \in DOMAIN run_index' :
                r \in DOMAIN run_index /\ run_index'[r] = run_index[r]]_vars

\* C16 witness: a train was refused on a stored session that had a failed
\* preprocess at most, and the session has no run.
C16_Witness ==
    /\ ret.op = "train"
    /\ ~ret.ok
    /\ ret.err = "Preprocessing must be executed before training"
    /\ ret.args.session_id \in DOMAIN items
    /\ ret.args.session_id \notin preprocessed
    /\ DOMAIN items[ret.args.session_id].runs = {}

\* a value that no coercion takes to the declared type: for an int, text, nan
\* or an infinity; for a float, text; for a bool, a string outside the
\* accepted words; for a select, a value outside the choices
Uncoercible(definition, value) ==
    CASE definition.type = "int" -> float(value).kind # "finite"
      [] definition.type = "float" -> float(value).kind = "invalid"
      [] definition.type = "bool" -> value \notin {"true", "1", "yes", "false", "0", "no"}
      [] definition.type = "select" -> value \notin definition.choices

\* the train call reaches the hyperparameters of a registered algorithm and
\* one of them, declared for that algorithm and task, has such a value
HasUncoercible(df, args) ==
    LET prepared == _prepare(df, args.target)
        task == IF _is_classification(prepared.y) THEN "classification" ELSE "regression"
        algorithm == _resolve_algorithm(task, args.algorithm)
    IN  /\ prepared.ok
        /\ algorithm # ""
        /\ \E i \in DOMAIN args.hyperparameters :
              LET allowed == _algorithm_specs[algorithm][task].hyperparameters
                  item == args.hyperparameters[i]
              IN  /\ item.key \in DOMAIN allowed
                  /\ Uncoercible(allowed[item.key], item.value)

InvalidHyperparameterErrors ==
    {"Hyperparameter must be an integer", "Hyperparameter must be numeric",
     "Hyperparameter must be true or false", "Hyperparameter must be one of the choices"}

\* C17: a train whose hyperparameters hold a value that cannot be coerced to
\* the type declared for it fails with an invalid-hyperparameter error, and
\* the latest results are left as they were.
C17_InvalidHyperparameterRejected ==
    [][(/\ ret'.op = "train_on_dataset"
        /\ ret'.id \in OD_Keys(store)
        /\ HasUncoercible(OD_Get(store, ret'.id), ret'.args)) =>
          /\ ~ret'.ok
          /\ ret'.err \in InvalidHyperparameterErrors
          /\ latest_results' = latest_results]_vars

\* every column has a value in the mapping that is a number or the text of a
\* finite number
PresentAndNumeric(columns, row) ==
    \A c \in Range(columns) :
        /\ c \in RowKeys(row)
        /\ \/ RowGet(row, c).number
           \/ float(RowGet(row, c).s).kind = "finite"

C19_InferenceUsesLatestTrain ==
    [][(/\ ret'.op = "predict_single"
        /\ ret'.id \in OD_Keys(store)
        /\ ret'.id \in DOMAIN lastTrain) =>
          /\ ret'.err # "Train a model before running inference"
          /\ ret'.ok =>
                /\ ret'.out.estimator = lastTrain[ret'.id].estimator
                /\ ret'.out.feature_columns = lastTrain[ret'.id].feature_columns
                /\ ret'.out.target = lastTrain[ret'.id].target_column]_vars

C24_TaskRuleIsShared ==
    ret.op = "detect_task" =>
        LET claimed == IF ret.args.classes <= Max(10, (ret.args.rows * 5) \div 100)
                       THEN "classification" ELSE "regression"
        IN  /\ ret.out.trainer = claimed
            /\ ret.out.preprocess = claimed

(***************************************************************************)
(* Properties of the session pipeline (PipelineSpec)                       *)
(***************************************************************************)
\* C21: a preprocessing that fails for an absent target column, and an
\* outlier detection that fails for want of numeric columns, leave the
\* session's dataset, target, preprocessing summary and artifact, cached
\* outlier mask and runs exactly as they were; a train that directly follows
\* such a failed preprocessing on a session with a fitted artifact is not
\* refused for want of preprocessing.
C21_ValidationFailureLeavesSession ==
    [][/\ (\/ ret'.op = "preprocess" /\ ret'.err = "Target column not found"
           \/ /\ ret'.op = "outlier_compute"
              /\ ret'.err = "Dataset does not contain numeric columns for outlier detection") =>
             /\ ~ret'.ok
             /\ ret'.id \in DOMAIN items
             /\ ret'.id \in DOMAIN items'
             /\ items'[ret'.id].dataframe = items[ret'.id].dataframe
             /\ heap'[items'[ret'.id].dataframe] = heap[items[ret'.id].dataframe]
             /\ items'[ret'.id].target = items[ret'.id].target
             /\ items'[ret'.id].preprocess_summary = items[ret'.id].preprocess_summary
             /\ items'[ret'.id].preprocess_artifacts = items[ret'.id].preprocess_artifacts
             /\ items'[ret'.id].outlier_state = items[ret'.id].outlier_state
             /\ items'[ret'.id].runs = items[ret'.id].runs
       /\ (/\ ret.op = "preprocess"
           /\ ret.err = "Target column not found"
           /\ ret.id \in preprocessed
           /\ ret'.op = "train"
           /\ ret'.args.session_id = ret.id) =>
             ret'.err # "Preprocessing must be executed before training"]_vars

\* C21 witness: a preprocessing failed for an absent target on a session
\* that keeps its fitted artifact, its target and a cached mask.
C21_Witness ==
    /\ ret.op = "preprocess"
    /\ ret.err = "Target column not found"
    /\ ret.id \in DOMAIN items
    /\ items[ret.id].preprocess_artifacts.present
    /\ items[ret.id].target = "y"
    /\ "mask" \in DOMAIN items[ret.id].outlier_state

\* C25: preprocessing never fails because a stratified split is infeasible.
C25_SplitNeverInfeasible ==
    ret.op = "preprocess" =>
        ret.err \notin {"The least populated class in y has only 1 member",
                        "The train_size should be greater or equal to the number of classes",
                        "The test_size should be greater or equal to the number of classes"}

\* C30: an outlier drop or winsorize leaves the session's preprocessing
\* artifact as it was, and so does a train; a train on a session with a
\* successful preprocessing is not refused for want of preprocessing, and a
\* successful one was fitted and evaluated on the stored artifact, whose split
\* a successful preprocessing takes from the dataset of that moment.
C30_MutationKeepsArtifact ==
    [][/\ (ret'.op = "outlier_apply" /\ ret'.id \in DOMAIN items') =>
             items'[ret'.id].preprocess_artifacts = items[ret'.id].preprocess_artifacts
       /\ (ret'.op = "train" /\ ret'.args.session_id \in DOMAIN items') =>
             LET sid == ret'.args.session_id
             IN  /\ items'[sid].preprocess_artifacts = items[sid].preprocess_artifacts
                 /\ sid \in preprocessed =>
                       ret'.err # "Preprocessing must be executed before training"
                 /\ ret'.ok => ret'.out = items[sid].preprocess_artifacts
       /\ (ret'.op = "preprocess" /\ ret'.ok) =>
             items'[ret'.id].preprocess_artifacts.frame
                 = heap[items[ret'.id].dataframe].rows]_vars

\* C30 witness: a train succeeded on the three rows of the last
\* preprocessing after a drop had left the session two rows.
C30_Witness ==
    /\ ret.op = "train"
    /\ ret.ok
    /\ Len(ret.out.frame) = 3
    /\ ret.args.session_id \in DOMAIN items
    /\ Len(heap[items[ret.args.session_id].dataframe].rows) = 2

\* the overrides of a train call whose key is declared for the algorithm and
\* task the call resolves to
DeclaredOverrides(df, args) ==
    LET prepared == _prepare(df, args.target)
        task == IF _is_classification(prepared.y) THEN "classification" ELSE "regression"
        allowed == _algorithm_specs[_resolve_algorithm(task, args.algorithm)][task]
                       .hyperparameters
    IN  SelectSeq(args.hyperparameters, LAMBDA item : item.key \in DOMAIN allowed)

\* the train call reaches the hyperparameters of a registered algorithm
ReachesHyperparameters(df, args) ==
    /\ _prepare(df, args.target).ok
    /\ _resolve_algorithm(TrainerTask(_prepare(df, args.target).y), args.algorithm) # ""

\* C28: a train that reaches the hyperparameters calls the estimator's
\* set_params not at all when one of the declared overrides cannot be
\* coerced, and then fails and leaves the latest results alone; otherwise it
\* calls it at most once, after everything was coerced, with one value for
\* each declared override, in their order, and for no other key, and not at
\* all when no override is declared.
C28_ValidateThenSet ==
    [][(/\ ret'.op = "train_on_dataset"
        /\ ret'.id \in OD_Keys(store)
        /\ ReachesHyperparameters(OD_Get(store, ret'.id), ret'.args)) =>
          LET declared == DeclaredOverrides(OD_Get(store, ret'.id), ret'.args)
          IN  IF HasUncoercible(OD_Get(store, ret'.id), ret'.args)
              THEN /\ ~ret'.ok
                   /\ ret'.set_params = <<>>
                   /\ latest_results' = latest_results
              ELSE IF declared = <<>>
              THEN ret'.set_params = <<>>
              ELSE /\ Len(ret'.set_params) = 1
                   /\ [i \in DOMAIN ret'.set_params[1] |-> ret'.set_params[1][i].key]
                          = [i \in DOMAIN declared |-> declared[i].key]
                   /\ ret'.ok => ret'.out.estimator.params = ret'.set_params[1]]_vars

\* C28 witness: a train was given a declared and an undeclared override and
\* set the declared one alone, in one call.
C28_Witness ==
    /\ ret.op = "train_on_dataset"
    /\ ret.ok
    /\ Len(ret.args.hyperparameters) = 2
    /\ Len(ret.set_params) = 1
    /\ Len(ret.set_params[1]) = 1

\* C28 witness of the failure: a train whose second declared override cannot
\* be coerced failed without a call to set_params.
C28_WitnessRejected ==
    /\ ret.op = "train_on_dataset"
    /\ ~ret.ok
    /\ Len(ret.args.hyperparameters) = 2
    /\ ret.err \in InvalidHyperparameterErrors
    /\ ret.set_params = <<>>

(***************************************************************************)
(* Properties of the core under concurrent requests (RaceSpec,             *)
(* DropRaceSpec)                                                           *)
(***************************************************************************)
\* C22: the update that ends a filter_rows or remove_outliers on a token
\* that is not in the store, dropped or evicted since the call fetched it,
\* fails with the expired-reference error and leaves the store as it was;
\* no token enters the store but the fresh one of an upload.
C22_UpdateNeverResurrects ==
    [][/\ \A t \in ThreadIds :
             (/\ threads[t].pc \in {"filter_update", "remove_update"}
              /\ threads'[t].pc = "idle"
              /\ threads[t].token \notin OD_Keys(store)) =>
                /\ store' = store
                /\ ~ret'.ok
                /\ ret'.id = threads[t].token
                /\ ret'.err = "Dataset reference expired. Upload again."
       /\ \A k \in OD_Keys(store') \ OD_Keys(store) :
             ret'.op = "register" /\ k = nextToken]_vars

\* C22 witness: the final update of a filter_rows failed on a dataset whose
\* drop had returned meanwhile, and the dataset is not in the store.
C22_Witness ==
    /\ ret.op = "filter_rows"
    /\ ~ret.ok
    /\ ret.at = "update"
    /\ ret.id \in dropped
    /\ ret.id \notin OD_Keys(store)

\* C29: once drop_dataset has returned for a dataset and no call is in
\* flight on it, get_dataset, latest_result, predict_single and
\* export_batch_predictions_csv all fail for it.
C29_DropIsFinal ==
    \A id \in dropped :
        InFlight(id) = {} =>
            /\ ~DatasetStore_get(store, id).ok
            /\ ~latest_result(latest_results, id).found
            /\ ~predict_single(latest_results, id, <<>>).ok
            /\ ~latest_batch_prediction(batch_predictions, id).found

(***************************************************************************)
(* Properties of the sessions under concurrent mutations (MutateSpec)      *)
(***************************************************************************)
\* C23: when no mutating call is in flight, the dataset of every session is
\* the frame it was loaded with or the complete frame one of the mutating
\* calls on it computed, never a mixture of two of them.
C23_LastWriterWins ==
    AllIdle =>
        \A sid \in DOMAIN items :
            sid \in DOMAIN complete => heap[items[sid].dataframe] \in complete[sid]

(***************************************************************************)
(* Properties of the mutexes (LockSpec)                                    *)
(***************************************************************************)
\* C26: a thread that is at a dataframe copy, in SessionStore.create or in
\* DatasetStore.get, holds neither store's mutex.
C26_CopyOutsideMutex ==
    \A t \in Copying : locks.session # t /\ locks.dataset # t

\* the runs of the sessions, per session
SessionRuns(its) == [sid \in DOMAIN its |-> its[sid].runs]

\* C27: every step that changes the session map, a session's runs or the run
\* index is taken by a thread that holds the session store's mutex, and
\* every step that changes the latest results by one that holds the dataset
\* store's.
C27_MutationsUnderMutex ==
    [][/\ (\/ DOMAIN items' # DOMAIN items
           \/ SessionRuns(items') # SessionRuns(items)
           \/ run_index' # run_index) =>
             \E t \in ThreadIds : locks.session = t /\ threads'[t] # threads[t]
       /\ latest_results' # latest_results =>
             \E t \in ThreadIds : locks.dataset = t /\ threads'[t] # threads[t]]_vars

====
